---------------------------- MODULE Spec2Model ----------------------------
(***************************************************************************)
(* Lateral-spreading zone classification of the Geology-tools plugin       *)
(* (algorithms/ls4sm_algorithm.py).                                        *)
(*                                                                         *)
(* The plugin has no classify() function of its own: for every rule of     *)
(* ZONE_CRITERIA, _extract_and_process_zone builds a filter expression     *)
(* with _build_extraction_expression / _build_range_condition and hands it *)
(* to the host's native:extractbyexpression, which keeps the features on   *)
(* which the expression is true.  The model keeps both halves: the         *)
(* expression is built as the code builds it (a conjunction of range       *)
(* conditions, each a list of comparisons) and then evaluated on a         *)
(* feature's INDEX and DN attributes.                                      *)
(*                                                                         *)
(* Numbers.  Attribute values are reals; the model uses fixed point        *)
(* numbers [w |-> whole part (floor), f |-> numerator of the fraction],    *)
(* value = w + f / Parts, 0 <= f < Parts.  The thresholds of the table are *)
(* Python ints and stay integers.                                          *)
(***************************************************************************)
EXTENDS Integers, Sequences, FiniteSets, TLC

(***************************************************************************)
(* Bounds of the model.                                                    *)
(***************************************************************************)
\* whole parts of the sampled attribute values run from -1 to MaxWhole
MaxWhole == 20
\* fractions per unit: f / Parts for f in 0 .. Parts-1
Parts == 2
\* one arbitrarily large attribute value (the spec's 1e9)
Huge == 1000000000
\* delegated operations of one run that do not return normally (they raise,
\* return no output, or find no style file)
MaxFaults == 1
\* times the user cancels in one behaviour
MaxCancels == 1
\* runs of processAlgorithm in one behaviour
MaxRuns == 2

VARIABLES
    rules,      \* LateralSpreadingAlgorithm.ZONE_CRITERIA (a class attribute, a Python list)
    sample,     \* the feature being classified: [INDEX |-> value, DN |-> value]
    k,          \* number of rules of the table evaluated on the feature so far
    matches,    \* codes of the rules the feature satisfied, in evaluation order
    \* a run of processAlgorithm
    algorithm,  \* name() of the algorithm whose processAlgorithm runs
    scene,      \* the analysis area behind the DTM and IL layer parameters: its
                \* pieces, each with a liquefaction index and a slope (DN)
    parameters, \* the parameters dict
    pc,         \* the delegated operation processAlgorithm is about to call
    stage,      \* in the pipelines that are a fixed list of stages: the stage
                \* about to run (from 1)
    feedback,   \* the multi-step feedback: canceled, current_step, warnings;
                \* observed: the number of operations called when a poll saw
                \* the flag
    outputs,    \* the outputs dict
    results,    \* the results dict
    zone_layers,\* the list zone_layers
    zone_i,     \* the loop index i over ZONE_CRITERIA (from 1)
    cur,        \* inside _extract_and_process_zone: the last operation's OUTPUT
    calls,      \* log of the delegated operations called, with their outcome
    sinks,      \* the destinations written during the run: for each, the
                \* operation that wrote what it holds
    run,        \* how the run ended: the dict returned, or the exception raised
    seen        \* what the earlier runs of the same behaviour left to compare with

vars == <<rules, sample, k, matches, algorithm, scene, parameters, pc, stage, feedback,
          outputs, results, zone_layers, zone_i, cur, calls, sinks, run, seen>>

(***************************************************************************)
(* Optional[float]: None, or a one-element tuple holding the value.        *)
(***************************************************************************)
None == <<>>

Some(x) == <<x>>

\* ZoneType(Enum) values
ZoneType == [LOW_SUSCEPTIBILITY |-> "Z0", SUSCEPTIBILITY |-> "SZ", RESPECT |-> "RZ"]

\* the dataclass constructor, fields in declaration order
ZoneClassification(code, zone_type, il_min, il_max, slope_min, slope_max, formula_text) ==
    [code |-> code, zone_type |-> zone_type,
     il_min |-> il_min, il_max |-> il_max,
     slope_min |-> slope_min, slope_max |-> slope_max,
     formula_text |-> formula_text]

OUTPUT_SLOPE == "slope_output"

OUTPUT_ZONES == "zones_output"

FIELD_DN == "DN"

FIELD_INDEX == "INDEX"

FIELD_FID == "fid"

FIELD_CODE == "code"

FIELD_FORMULA == "formula"

STEP_ZONES_START == 6

\* steps_per_zone: extract, dissolve, add code, refactor, add formula
steps_per_zone == 5

\* slip: rule 104 copied from 103 with its slope bound (5) left in place
ZONE_CRITERIA_104_slope_5 ==
    << ZoneClassification(101, ZoneType.RESPECT, Some(0), Some(2), Some(15), None,
                          "RZ=(0<IL<=2) and (slope>15)"),
       ZoneClassification(102, ZoneType.RESPECT, Some(2), Some(5), Some(5), None,
                          "RZ=(2<IL<=5) and (slope>5)"),
       ZoneClassification(103, ZoneType.RESPECT, Some(5), Some(15), Some(5), None,
                          "RZ=(5<IL<=15) and (slope>5)"),
       ZoneClassification(104, ZoneType.RESPECT, Some(15), None, Some(5), None,
                          "RZ=(IL>15) and (slope>2)"),
       ZoneClassification(201, ZoneType.SUSCEPTIBILITY, Some(0), Some(2), Some(5), Some(15),
                          "SZ=(0<IL<=2) and (5<slope<=15)"),
       ZoneClassification(202, ZoneType.SUSCEPTIBILITY, Some(2), Some(5), Some(2), Some(5),
                          "SZ=(2<IL<=5) and (2<slope<=5)"),
       ZoneClassification(203, ZoneType.SUSCEPTIBILITY, Some(5), Some(15), Some(2), Some(5),
                          "SZ=(5<IL<=15) and (2<slope<=5)"),
       ZoneClassification(300, ZoneType.LOW_SUSCEPTIBILITY, Some(0), Some(2), Some(2), Some(5),
                          "Z0=(0<IL<=2) and (2<slope<=5)") >>

\* slip: the slope ranges of rules 201 and 300 exchanged
ZONE_CRITERIA_201_300_exchanged ==
    << ZoneClassification(101, ZoneType.RESPECT, Some(0), Some(2), Some(15), None,
                          "RZ=(0<IL<=2) and (slope>15)"),
       ZoneClassification(102, ZoneType.RESPECT, Some(2), Some(5), Some(5), None,
                          "RZ=(2<IL<=5) and (slope>5)"),
       ZoneClassification(103, ZoneType.RESPECT, Some(5), Some(15), Some(5), None,
                          "RZ=(5<IL<=15) and (slope>5)"),
       ZoneClassification(104, ZoneType.RESPECT, Some(15), None, Some(2), None,
                          "RZ=(IL>15) and (slope>2)"),
       ZoneClassification(201, ZoneType.SUSCEPTIBILITY, Some(0), Some(2), Some(2), Some(5),
                          "SZ=(0<IL<=2) and (5<slope<=15)"),
       ZoneClassification(202, ZoneType.SUSCEPTIBILITY, Some(2), Some(5), Some(2), Some(5),
                          "SZ=(2<IL<=5) and (2<slope<=5)"),
       ZoneClassification(203, ZoneType.SUSCEPTIBILITY, Some(5), Some(15), Some(2), Some(5),
                          "SZ=(5<IL<=15) and (2<slope<=5)"),
       ZoneClassification(300, ZoneType.LOW_SUSCEPTIBILITY, Some(0), Some(2), Some(5), Some(15),
                          "Z0=(0<IL<=2) and (2<slope<=5)") >>

\* slip: rule 104 given an upper index bound (100, the help text's "0-100")
ZONE_CRITERIA_104_capped ==
    << ZoneClassification(101, ZoneType.RESPECT, Some(0), Some(2), Some(15), None,
                          "RZ=(0<IL<=2) and (slope>15)"),
       ZoneClassification(102, ZoneType.RESPECT, Some(2), Some(5), Some(5), None,
                          "RZ=(2<IL<=5) and (slope>5)"),
       ZoneClassification(103, ZoneType.RESPECT, Some(5), Some(15), Some(5), None,
                          "RZ=(5<IL<=15) and (slope>5)"),
       ZoneClassification(104, ZoneType.RESPECT, Some(15), Some(100), Some(2), None,
                          "RZ=(IL>15) and (slope>2)"),
       ZoneClassification(201, ZoneType.SUSCEPTIBILITY, Some(0), Some(2), Some(5), Some(15),
                          "SZ=(0<IL<=2) and (5<slope<=15)"),
       ZoneClassification(202, ZoneType.SUSCEPTIBILITY, Some(2), Some(5), Some(2), Some(5),
                          "SZ=(2<IL<=5) and (2<slope<=5)"),
       ZoneClassification(203, ZoneType.SUSCEPTIBILITY, Some(5), Some(15), Some(2), Some(5),
                          "SZ=(5<IL<=15) and (2<slope<=5)"),
       ZoneClassification(300, ZoneType.LOW_SUSCEPTIBILITY, Some(0), Some(2), Some(2), Some(5),
                          "Z0=(0<IL<=2) and (2<slope<=5)") >>

\* slip: rule 203 copied from 202 with its code left in place
ZONE_CRITERIA_203_coded_202 ==
    << ZoneClassification(101, ZoneType.RESPECT, Some(0), Some(2), Some(15), None,
                          "RZ=(0<IL<=2) and (slope>15)"),
       ZoneClassification(102, ZoneType.RESPECT, Some(2), Some(5), Some(5), None,
                          "RZ=(2<IL<=5) and (slope>5)"),
       ZoneClassification(103, ZoneType.RESPECT, Some(5), Some(15), Some(5), None,
                          "RZ=(5<IL<=15) and (slope>5)"),
       ZoneClassification(104, ZoneType.RESPECT, Some(15), None, Some(2), None,
                          "RZ=(IL>15) and (slope>2)"),
       ZoneClassification(201, ZoneType.SUSCEPTIBILITY, Some(0), Some(2), Some(5), Some(15),
                          "SZ=(0<IL<=2) and (5<slope<=15)"),
       ZoneClassification(202, ZoneType.SUSCEPTIBILITY, Some(2), Some(5), Some(2), Some(5),
                          "SZ=(2<IL<=5) and (2<slope<=5)"),
       ZoneClassification(202, ZoneType.SUSCEPTIBILITY, Some(5), Some(15), Some(2), Some(5),
                          "SZ=(5<IL<=15) and (2<slope<=5)"),
       ZoneClassification(300, ZoneType.LOW_SUSCEPTIBILITY, Some(0), Some(2), Some(2), Some(5),
                          "Z0=(0<IL<=2) and (2<slope<=5)") >>

ZONE_CRITERIA ==
    << ZoneClassification(101, ZoneType.RESPECT, Some(0), Some(2), Some(15), None,
                          "RZ=(0<IL<=2) and (slope>15)"),
       ZoneClassification(102, ZoneType.RESPECT, Some(2), Some(5), Some(5), None,
                          "RZ=(2<IL<=5) and (slope>5)"),
       ZoneClassification(103, ZoneType.RESPECT, Some(5), Some(15), Some(5), None,
                          "RZ=(5<IL<=15) and (slope>5)"),
       ZoneClassification(104, ZoneType.RESPECT, Some(15), None, Some(2), None,
                          "RZ=(IL>15) and (slope>2)"),
       ZoneClassification(201, ZoneType.SUSCEPTIBILITY, Some(0), Some(2), Some(5), Some(15),
                          "SZ=(0<IL<=2) and (5<slope<=15)"),
       ZoneClassification(202, ZoneType.SUSCEPTIBILITY, Some(2), Some(5), Some(2), Some(5),
                          "SZ=(2<IL<=5) and (2<slope<=5)"),
       ZoneClassification(203, ZoneType.SUSCEPTIBILITY, Some(5), Some(15), Some(2), Some(5),
                          "SZ=(5<IL<=15) and (2<slope<=5)"),
       ZoneClassification(300, ZoneType.LOW_SUSCEPTIBILITY, Some(0), Some(2), Some(2), Some(5),
                          "Z0=(0<IL<=2) and (2<slope<=5)") >>

(***************************************************************************)
(* _build_range_condition: the SQL range condition of one field, as the    *)
(* list of its comparisons (the f-string renders "field" op value); the    *)
(* empty string is the empty list.                                         *)
(***************************************************************************)
Comparison(field_name, op, val) == [field |-> field_name, op |-> op, val |-> val]

\* slip: the lower bound tested with >= (closed below)
_build_range_condition_closed_below(field_name, min_val, max_val) ==
    IF min_val # None /\ max_val # None
    THEN << Comparison(field_name, ">=", min_val[1]),
            Comparison(field_name, "<=", max_val[1]) >>
    ELSE IF min_val # None
    THEN << Comparison(field_name, ">=", min_val[1]) >>
    ELSE IF max_val # None
    THEN << Comparison(field_name, "<=", max_val[1]) >>
    ELSE << >>

\* slip: the upper bound tested with < (open above)
_build_range_condition_open_above(field_name, min_val, max_val) ==
    IF min_val # None /\ max_val # None
    THEN << Comparison(field_name, ">", min_val[1]),
            Comparison(field_name, "<", max_val[1]) >>
    ELSE IF min_val # None
    THEN << Comparison(field_name, ">", min_val[1]) >>
    ELSE IF max_val # None
    THEN << Comparison(field_name, "<", max_val[1]) >>
    ELSE << >>

\* slip: "if min_val and max_val" (truthiness): a bound of 0 counts as absent
_build_range_condition_truthy(field_name, min_val, max_val) ==
    LET present(b) == b # None /\ b[1] # 0
    IN  IF present(min_val) /\ present(max_val)
        THEN << Comparison(field_name, ">", min_val[1]),
                Comparison(field_name, "<=", max_val[1]) >>
        ELSE IF present(min_val)
        THEN << Comparison(field_name, ">", min_val[1]) >>
        ELSE IF present(max_val)
        THEN << Comparison(field_name, "<=", max_val[1]) >>
        ELSE << >>

\* slip: an absent bound rendered as 0 ("or 0") instead of left out
_build_range_condition_none_as_zero(field_name, min_val, max_val) ==
    << Comparison(field_name, ">", IF min_val # None THEN min_val[1] ELSE 0),
       Comparison(field_name, "<=", IF max_val # None THEN max_val[1] ELSE 0) >>

_build_range_condition(field_name, min_val, max_val) ==
    IF min_val # None /\ max_val # None
    THEN << Comparison(field_name, ">", min_val[1]),
            Comparison(field_name, "<=", max_val[1]) >>
    ELSE IF min_val # None
    THEN << Comparison(field_name, ">", min_val[1]) >>
    ELSE IF max_val # None
    THEN << Comparison(field_name, "<=", max_val[1]) >>
    ELSE << >>

(***************************************************************************)
(* _build_extraction_expression: the non-empty conditions joined by AND,   *)
(* or '1=1' when there is none.                                            *)
(***************************************************************************)
\* slip: the slope condition is built but never appended
_build_extraction_expression_il_only(zone_config) ==
    LET il_cond == _build_range_condition(FIELD_INDEX, zone_config.il_min, zone_config.il_max)
        conditions == IF il_cond # << >> THEN << il_cond >> ELSE << >>
    IN  IF conditions # << >> THEN conditions ELSE << << Comparison("1", "=", 1) >> >>

\* slip: the bounds of the two ranges passed to the wrong field
_build_extraction_expression_swapped(zone_config) ==
    LET il_cond == _build_range_condition(FIELD_INDEX, zone_config.slope_min, zone_config.slope_max)
        slope_cond == _build_range_condition(FIELD_DN, zone_config.il_min, zone_config.il_max)
        conditions == (IF il_cond # << >> THEN << il_cond >> ELSE << >>)
                      \o (IF slope_cond # << >> THEN << slope_cond >> ELSE << >>)
    IN  IF conditions # << >> THEN conditions ELSE << << Comparison("1", "=", 1) >> >>

\* slip: the list of conditions is kept on the algorithm object, so that
\* from the second run on an expression starts with the slope condition the
\* last rule of the run before left there
_build_extraction_expression_kept_conditions(zone_config) ==
    LET kept == IF seen.runs > 0
                THEN << _build_range_condition(FIELD_DN, rules[Len(rules)].slope_min,
                                                rules[Len(rules)].slope_max) >>
                ELSE << >>
        il_cond == _build_range_condition(FIELD_INDEX, zone_config.il_min, zone_config.il_max)
        slope_cond == _build_range_condition(FIELD_DN, zone_config.slope_min, zone_config.slope_max)
        conditions == kept \o (IF il_cond # << >> THEN << il_cond >> ELSE << >>)
                      \o (IF slope_cond # << >> THEN << slope_cond >> ELSE << >>)
    IN  IF conditions # << >> THEN conditions ELSE << << Comparison("1", "=", 1) >> >>

_build_extraction_expression(zone_config) ==
    LET il_cond == _build_range_condition(FIELD_INDEX, zone_config.il_min, zone_config.il_max)
        slope_cond == _build_range_condition(FIELD_DN, zone_config.slope_min, zone_config.slope_max)
        conditions == (IF il_cond # << >> THEN << il_cond >> ELSE << >>)
                      \o (IF slope_cond # << >> THEN << slope_cond >> ELSE << >>)
    IN  IF conditions # << >> THEN conditions ELSE << << Comparison("1", "=", 1) >> >>

(***************************************************************************)
(* The host's evaluation of the expression on one feature                  *)
(* (native:extractbyexpression keeps the features on which it is true).    *)
(***************************************************************************)
\* x > n and x <= n for a fixed-point x and an integer n
Gt(x, n) == x.w > n \/ (x.w = n /\ x.f > 0)

Le(x, n) == ~Gt(x, n)

EvalComparison(c, feature) ==
    IF c.field = "1" THEN 1 = c.val
    ELSE LET x == feature[c.field]
         IN  CASE c.op = ">"  -> Gt(x, c.val)
               [] c.op = "<=" -> Le(x, c.val)
               [] c.op = ">=" -> ~Le(x, c.val) \/ (x.w = c.val /\ x.f = 0)
               [] c.op = "<"  -> Le(x, c.val) /\ ~(x.w = c.val /\ x.f = 0)

EvalExpression(expression, feature) ==
    \A i \in 1..Len(expression) :
        \A j \in 1..Len(expression[i]) : EvalComparison(expression[i][j], feature)

\* the rule selects the feature: its extraction expression is true on it
Selects(zone_config, feature) ==
    EvalExpression(_build_extraction_expression(zone_config), feature)

(***************************************************************************)
(* Sampled attribute values.                                               *)
(***************************************************************************)
Values ==
    { [w |-> w, f |-> f] : w \in (0 - 1)..MaxWhole, f \in 0..(Parts - 1) }
    \cup { [w |-> Huge, f |-> 0] }

Features == { [INDEX |-> i, DN |-> s] : i \in Values, s \in Values }

(***************************************************************************)
(* Classification of one feature: the loop of processAlgorithm over        *)
(* ZONE_CRITERIA, one rule per step, every rule evaluated, every match     *)
(* kept.                                                                   *)
(***************************************************************************)
InitClassify ==
    /\ rules = ZONE_CRITERIA
    /\ sample \in Features
    /\ k = 0
    /\ matches = << >>
    /\ algorithm = "lateral_spreading_analysis"
    /\ scene = << >>
    /\ parameters = << >>
    /\ pc = "idle"
    /\ stage = 0
    /\ feedback = [canceled |-> FALSE, current_step |-> 0, warnings |-> << >>,
                   observed |-> << >>]
    /\ outputs = << >>
    /\ results = << >>
    /\ zone_layers = << >>
    /\ zone_i = 0
    /\ cur = << >>
    /\ calls = << >>
    /\ sinks = << >>
    /\ run = [kind |-> "running", value |-> << >>]
    /\ seen = [runs |-> 0, faults |-> 0, cancels |-> 0, obs |-> {}, twin |-> FALSE,
               log |-> << >>, cancel |-> << >>, last |-> << >>]

ClassifyRule ==
    /\ k < Len(rules)
    /\ LET zone_config == rules[k + 1]
       IN  matches' = IF Selects(zone_config, sample)
                      THEN Append(matches, zone_config.code)
                      ELSE matches
    /\ k' = k + 1
    /\ UNCHANGED <<rules, sample, algorithm, scene, parameters, pc, stage, feedback,
                   outputs, results, zone_layers, zone_i, cur, calls, sinks, run, seen>>

NextClassify == ClassifyRule

SpecClassify == InitClassify /\ [][NextClassify]_vars

(***************************************************************************)
(* The host's layers.  A vector layer is its field names and its features  *)
(* in storage order; a feature is the set of input pieces its geometry     *)
(* covers and its attribute values by field name.  rule is bookkeeping:    *)
(* the position in the table of the rule a zone layer was built for (0     *)
(* for the other layers); the code only holds an opaque layer id.          *)
(***************************************************************************)
Layer(rule, fields, feats) == [rule |-> rule, fields |-> fields, feats |-> feats]

Raster(name) == [raster |-> name]

NULL == "NULL"

\* the pieces covered by the features of a layer
Cover(layer) == UNION { layer.feats[n].geom : n \in 1..Len(layer.feats) }

\* gdal:polygonize with FIELD = DN: one polygon per piece, its DN the slope
Polygonize(pieces) ==
    Layer(0, {FIELD_FID, FIELD_DN},
          [n \in 1..Len(pieces) |->
              [geom |-> {n}, attrs |-> (FIELD_FID :> n) @@ (FIELD_DN :> pieces[n].DN)]])

\* native:intersection with all fields of both layers: the overlay's fields
\* (its fid renamed fid_2, and the liquefaction index field) are added
Intersection(layer, pieces, il_field) ==
    Layer(0, layer.fields \cup {"fid_2", il_field},
          [n \in 1..Len(layer.feats) |->
              [layer.feats[n] EXCEPT !.attrs =
                  ("fid_2" :> 1) @@ (il_field :> pieces[n].INDEX) @@ @]])

\* native:renametablefield
RenameTableField(layer, field, new_name) ==
    LET renamed(a) ==
            [f \in (DOMAIN a \ {field}) \cup {new_name} |->
                IF f = new_name THEN a[field] ELSE a[f]]
    IN  Layer(0, (layer.fields \ {field}) \cup {new_name},
              [n \in 1..Len(layer.feats) |->
                  [layer.feats[n] EXCEPT !.attrs = renamed(@)]])

\* native:extractbyexpression: the features on which the expression is true
ExtractByExpression(expression, layer, rule) ==
    LET Keep(feat) == EvalExpression(expression, feat.attrs)
    IN  Layer(rule, layer.fields, SelectSeq(layer.feats, Keep))

\* native:dissolve with no dissolve field: the geometries merged into one
\* feature that keeps the attributes of the first
Dissolve(layer) ==
    Layer(layer.rule, layer.fields,
          IF layer.feats = << >> THEN << >>
          ELSE << [geom |-> Cover(layer), attrs |-> layer.feats[1].attrs] >>)

\* native:fieldcalculator creating a field holding a constant
FieldCalculator(layer, field_name, value) ==
    Layer(layer.rule, layer.fields \cup {field_name},
          [n \in 1..Len(layer.feats) |->
              [layer.feats[n] EXCEPT !.attrs = (field_name :> value) @@ @]])

\* native:refactorfields with a mapping of fields onto themselves: only the
\* mapped fields stay; a field the input lacks is NULL
RefactorFields(layer, names) ==
    LET mapped(a) == [f \in names |-> IF f \in DOMAIN a THEN a[f] ELSE NULL]
    IN  Layer(layer.rule, names,
              [n \in 1..Len(layer.feats) |->
                  [layer.feats[n] EXCEPT !.attrs = mapped(@)]])

\* all features of a list of layers, in list order
RECURSIVE AllFeatures(_)
AllFeatures(layers) ==
    IF layers = << >> THEN << >>
    ELSE layers[1].feats \o AllFeatures(Tail(layers))

\* native:mergevectorlayers: the features of all layers, with the fields
\* "layer" and "path" added by the host
MergeVectorLayers(layers) ==
    LET fields == UNION { layers[n].fields : n \in 1..Len(layers) } \cup {"layer", "path"}
        feats == AllFeatures(layers)
    IN  Layer(0, fields,
              [n \in 1..Len(feats) |->
                  [feats[n] EXCEPT !.attrs =
                      [f \in fields |-> IF f \in DOMAIN @ THEN @[f]
                                         ELSE IF f \in {"layer", "path"} THEN "source"
                                         ELSE NULL]]])

(***************************************************************************)
(* Python dicts (parameters aside): results and outputs.                   *)
(***************************************************************************)
EmptyDict == << >>

Put(dict, key, value) == (key :> value) @@ dict

(***************************************************************************)
(* processAlgorithm.  One action per delegated operation (processing.run), *)
(* each holding the code from that call up to the next one: the step       *)
(* counter, the cancellation poll where there is one, the loop tail.  A    *)
(* delegated operation returns its output or raises; extraction may also   *)
(* return no output.  At most MaxFaults operations of a behaviour do not   *)
(* return normally.                                                        *)
(***************************************************************************)
\* QgsProcessing.TEMPORARY_OUTPUT
TEMPORARY_OUTPUT == "TEMPORARY_OUTPUT"

\* one entry of the log of delegated operations: the algorithm id, the rule
\* of the table it works for (0: none), the name of its input, the
\* destinations passed as its outputs, its further parameters, and how it ended
Call(alg, zone, input, output, arg, outcome) ==
    [alg |-> alg, zone |-> zone, input |-> input, output |-> output, arg |-> arg,
     outcome |-> outcome]

\* the log without the calls of _apply_style
NonStyle(log) == SelectSeq(log, LAMBDA c : c.alg # "native:setlayerstyle")

\* no earlier run
NoRuns ==
    [runs |-> 0, faults |-> 0, cancels |-> 0, obs |-> {}, twin |-> FALSE,
     log |-> << >>, cancel |-> None, last |-> None]

\* the run repeats an earlier one, and is still inside the operations that
\* one called: they end as they did then
Replaying == seen.twin /\ Len(NonStyle(calls)) < Len(seen.log)

Faults ==
    seen.faults
    + Cardinality({ n \in 1..Len(calls) :
                      /\ calls[n].outcome # "ok"
                      /\ seen.twin => calls[n].alg = "native:setlayerstyle" })
    + Cardinality({ n \in 1..Len(feedback.warnings) : feedback.warnings[n][1] = "missing" })

\* what processing.run may do now, other being the ways not to return
\* normally besides raising
Outcomes(other) ==
    IF Replaying THEN { seen.log[Len(NonStyle(calls)) + 1].outcome }
    ELSE {"ok"} \cup (IF Faults < MaxFaults THEN {"raise"} \cup other ELSE {})

RunOutcomes == Outcomes({})

\* the destination a value of an output parameter names: the host makes a
\* new temporary layer for every call given TEMPORARY_OUTPUT
Destination(value, n) ==
    [name |-> value, call |-> IF value = TEMPORARY_OUTPUT THEN n ELSE 0]

\* the destinations after the n-th call, of alg, wrote its outputs
Written(s, alg, output, n) ==
    LET dests == { Destination(value, n) : value \in output }
    IN  [d \in DOMAIN s \cup dests |-> IF d \in dests THEN [alg |-> alg, call |-> n] ELSE s[d]]

\* processing.run: the call is logged, and what it wrote is in its destinations
Ran(alg, zone, input, output, arg, outcome) ==
    /\ calls' = Append(calls, Call(alg, zone, input, output, arg, outcome))
    /\ sinks' = IF outcome = "ok" THEN Written(sinks, alg, output, Len(calls) + 1) ELSE sinks

total_steps == STEP_ZONES_START + Len(rules) * steps_per_zone + 4

\* current_step += n; feedback.setCurrentStep(current_step)
Stepped(fb, n) == [fb EXCEPT !.current_step = @ + n]

\* feedback.pushWarning
Warned(fb, what) == [fb EXCEPT !.warnings = Append(@, what)]

\* "if feedback.isCanceled()" found the flag set, n operations called so far
Observed(fb, n) == [fb EXCEPT !.observed = Some(n)]

Returned(value) == [kind |-> "returned", value |-> value]

Raised(message) == [kind |-> "raised", value |-> message]

Running == [kind |-> "running", value |-> EmptyDict]

\* the representative pieces of an analysis area: one (index, slope) pair in
\* every cell of the grid cut by the thresholds of the shipped table
AreaValues(thresholds) ==
    { [w |-> n, f |-> 0] :
        n \in { t + 1 : t \in thresholds }
              \cup { t \in thresholds : \A u \in thresholds : t <= u } }

IndexThresholds ==
    UNION { { b[1] : b \in { ZONE_CRITERIA[n].il_min, ZONE_CRITERIA[n].il_max } \ {None} } :
            n \in 1..Len(ZONE_CRITERIA) }

SlopeThresholds ==
    UNION { { b[1] : b \in { ZONE_CRITERIA[n].slope_min, ZONE_CRITERIA[n].slope_max } \ {None} } :
            n \in 1..Len(ZONE_CRITERIA) }

Pieces ==
    { [INDEX |-> i, DN |-> s] : i \in AreaValues(IndexThresholds), s \in AreaValues(SlopeThresholds) }

\* a set as a sequence, in some fixed order
RECURSIVE SeqOf(_)
SeqOf(set) ==
    IF set = {} THEN << >>
    ELSE LET x == CHOOSE y \in set : TRUE IN << x >> \o SeqOf(set \ {x})

\* the analysis areas: empty, a single piece, or one piece of every kind
Scenes == { << >>, SeqOf(Pieces) } \cup { << p >> : p \in Pieces }

\* "parameters.get(name)" is truthy: the parameter is there and not empty
Given(value) == value # None /\ value # Some("")

\* the parameter dicts a run may get: a required parameter may be missing or
\* empty; both outputs go to temporary layers
ParameterSets ==
    [dtm : {None, Some(""), Some("dtm")},
     il_layer : {None, Some(""), Some("il_layer")},
     il_field : {None, Some(""), Some("IL")},
     apply_styles : BOOLEAN,
     slope_output : {TEMPORARY_OUTPUT},
     zones_output : {TEMPORARY_OUTPUT}]

\* the state processAlgorithm starts from
NewRun ==
    /\ feedback = [canceled |-> FALSE, current_step |-> 0, warnings |-> << >>,
                   observed |-> None]
    /\ outputs = EmptyDict
    /\ results = EmptyDict
    /\ zone_layers = << >>
    /\ zone_i = 0
    /\ cur = None
    /\ calls = << >>
    /\ sinks = << >>
    /\ run = Running
    /\ sample = [INDEX |-> [w |-> 0, f |-> 0], DN |-> [w |-> 0, f |-> 0]]
    /\ k = 0
    /\ matches = << >>

InitRun ==
    /\ pc = "start"
    /\ stage = 0
    /\ NewRun

Init ==
    /\ rules = ZONE_CRITERIA
    /\ algorithm = "lateral_spreading_analysis"
    /\ scene \in Scenes
    /\ parameters \in ParameterSets
    /\ seen = NoRuns
    /\ InitRun

\* slip: the three checks made in the opposite order
Start_field_first ==
    /\ pc = "start"
    /\ IF ~Given(parameters.il_field)
       THEN pc' = "done" /\ run' = Raised("Liquefaction Index field must be specified")
       ELSE IF ~Given(parameters.il_layer)
       THEN pc' = "done" /\ run' = Raised("Liquefaction Index layer is required")
       ELSE IF ~Given(parameters.dtm)
       THEN pc' = "done" /\ run' = Raised("Digital Terrain Model (DTM) is required")
       ELSE pc' = "clip" /\ run' = run
    /\ UNCHANGED <<rules, scene, parameters, feedback, outputs, results, zone_layers,
                   zone_i, cur, calls, sinks, sample, k, matches, algorithm, stage, seen>>

\* _validate_parameters (it raises before the try block), then the set-up
Start ==
    /\ pc = "start"
    /\ IF ~Given(parameters.dtm)
       THEN pc' = "done" /\ run' = Raised("Digital Terrain Model (DTM) is required")
       ELSE IF ~Given(parameters.il_layer)
       THEN pc' = "done" /\ run' = Raised("Liquefaction Index layer is required")
       ELSE IF ~Given(parameters.il_field)
       THEN pc' = "done" /\ run' = Raised("Liquefaction Index field must be specified")
       ELSE pc' = "clip" /\ run' = run
    /\ UNCHANGED <<rules, scene, parameters, feedback, outputs, results, zone_layers,
                   zone_i, cur, calls, sinks, sample, k, matches, algorithm, stage, seen>>

\* slip: a cancelled run returns the outputs reported so far
Cancelled_partial_results(reported) == Returned(reported)

\* "if feedback.isCanceled(): return {}"
Cancelled(reported) == Returned(EmptyDict)

\* the end of a step of the main pipeline: the step counter and, where the
\* code polls it, the cancellation flag
EndStep(fb, poll, next) ==
    IF poll /\ fb.canceled
    THEN /\ feedback' = Observed(Stepped(fb, 1), Len(calls'))
         /\ pc' = "done"
         /\ run' = Cancelled(results)
    ELSE /\ feedback' = Stepped(fb, 1)
         /\ pc' = next
         /\ run' = run

\* a delegated operation of the main pipeline raised: the run ends with
\* QgsProcessingException (re-raised, or wrapped by "except Exception")
Fatal(alg) ==
    /\ pc' = "done"
    /\ run' = Raised(alg)
    /\ feedback' = feedback

\* Step 1: _clip_raster
Clip ==
    /\ pc = "clip"
    /\ \E outcome \in RunOutcomes :
          /\ Ran("gdal:cliprasterbymasklayer", 0, "digital_terrain_model_dtm",
                 {TEMPORARY_OUTPUT}, << "layer_with_il_index" >>, outcome)
          /\ IF outcome = "raise"
             THEN Fatal("gdal:cliprasterbymasklayer") /\ outputs' = outputs
             ELSE /\ outputs' = Put(outputs, "clipped_dtm", Raster("clipped_dtm"))
                  /\ EndStep(feedback, TRUE, "slope")
    /\ UNCHANGED <<rules, scene, parameters, results, zone_layers, zone_i, cur, sample, k, matches, algorithm, stage, seen>>

\* Step 2: _calculate_slope, reported as results[OUTPUT_SLOPE]
Slope ==
    /\ pc = "slope"
    /\ \E outcome \in RunOutcomes :
          /\ Ran("gdal:slope", 0, "clipped_dtm", {parameters[OUTPUT_SLOPE]}, << >>, outcome)
          /\ IF outcome = "raise"
             THEN Fatal("gdal:slope") /\ UNCHANGED <<outputs, results>>
             ELSE /\ outputs' = Put(outputs, "slope", Raster("slope"))
                  /\ results' = Put(results, OUTPUT_SLOPE, Raster("slope"))
                  /\ EndStep(feedback, TRUE, "polygonize_after_style")
    /\ UNCHANGED <<rules, scene, parameters, zone_layers, zone_i, cur, sample, k, matches, algorithm, stage, seen>>

\* what _apply_style may meet: the style applied, the style file missing, or
\* native:setlayerstyle raising (both reported as a warning, never raised)
StyleOutcomes == {"ok"} \cup (IF Faults < MaxFaults THEN {"raise", "missing"} ELSE {})

\* slip: the style is applied whatever the flag says
Styled_whatever_the_flag(outcome, layer, style_filename) ==
    /\ calls' = IF outcome # "missing"
                THEN Append(calls, Call("native:setlayerstyle", 0, layer, {},
                                        << style_filename >>, outcome))
                ELSE calls
    /\ feedback' = Stepped(IF parameters.apply_styles /\ outcome # "ok"
                           THEN Warned(feedback, << outcome, style_filename >>)
                           ELSE feedback, 1)

\* _apply_style when the flag is set, nothing otherwise: the log of calls and
\* the feedback after it
Styled(outcome, layer, style_filename) ==
    /\ calls' = IF parameters.apply_styles /\ outcome # "missing"
                THEN Append(calls, Call("native:setlayerstyle", 0, layer, {},
                                        << style_filename >>, outcome))
                ELSE calls
    /\ feedback' = Stepped(IF parameters.apply_styles /\ outcome # "ok"
                           THEN Warned(feedback, << outcome, style_filename >>)
                           ELSE feedback, 1)

\* Step 3: style of the slope layer (no cancellation poll after it)
StyleSlope ==
    /\ pc = "polygonize_after_style"
    /\ \E outcome \in (IF parameters.apply_styles THEN StyleOutcomes ELSE {"ok"}) :
          Styled(outcome, "slope", "slope.qml")
    /\ pc' = "polygonize"
    /\ UNCHANGED <<rules, scene, parameters, outputs, results, zone_layers, zone_i, cur, run,
                   sinks, sample, k, matches, algorithm, stage, seen>>

\* Step 4: _polygonize_raster
PolygonizeRaster ==
    /\ pc = "polygonize"
    /\ \E outcome \in RunOutcomes :
          /\ Ran("gdal:polygonize", 0, "slope", {TEMPORARY_OUTPUT}, << FIELD_DN >>, outcome)
          /\ IF outcome = "raise"
             THEN Fatal("gdal:polygonize") /\ outputs' = outputs
             ELSE /\ outputs' = Put(outputs, "slope_polygons", Polygonize(scene))
                  /\ EndStep(feedback, TRUE, "intersect")
    /\ UNCHANGED <<rules, scene, parameters, results, zone_layers, zone_i, cur, sample, k, matches, algorithm, stage, seen>>

\* Step 5: _intersect_layers (no cancellation poll after it)
IntersectLayers ==
    /\ pc = "intersect"
    /\ \E outcome \in RunOutcomes :
          /\ Ran("native:intersection", 0, "slope_polygons", {TEMPORARY_OUTPUT},
                 << "layer_with_il_index" >>, outcome)
          /\ IF outcome = "raise"
             THEN Fatal("native:intersection") /\ outputs' = outputs
             ELSE /\ outputs' = Put(outputs, "intersected",
                                    Intersection(outputs["slope_polygons"], scene,
                                                 parameters.il_field[1]))
                  /\ EndStep(feedback, FALSE, "rename")
    /\ UNCHANGED <<rules, scene, parameters, results, zone_layers, zone_i, cur, sample, k, matches, algorithm, stage, seen>>

\* Step 6: _rename_il_field; then zone_layers = [] and the loop is entered
RenameIlField ==
    /\ pc = "rename"
    /\ \E outcome \in RunOutcomes :
          /\ Ran("native:renametablefield", 0, "intersected", {TEMPORARY_OUTPUT},
                 << parameters.il_field[1], FIELD_INDEX >>, outcome)
          /\ IF outcome = "raise"
             THEN Fatal("native:renametablefield") /\ UNCHANGED <<outputs, zone_i>>
             ELSE /\ outputs' = Put(outputs, "prepared_data",
                                    RenameTableField(outputs["intersected"],
                                                     parameters.il_field[1], FIELD_INDEX))
                  /\ IF feedback.canceled
                     THEN /\ feedback' = Observed(Stepped(feedback, 1), Len(calls'))
                          /\ pc' = "done" /\ run' = Cancelled(results) /\ zone_i' = zone_i
                     ELSE /\ feedback' = Stepped(feedback, 1)
                          /\ IF Len(rules) = 0
                             THEN /\ pc' = "done"
                                  /\ run' = Raised("No zones were generated")
                                  /\ zone_i' = zone_i
                             ELSE pc' = "extract" /\ run' = run /\ zone_i' = 1
    /\ UNCHANGED <<rules, scene, parameters, results, zone_layers, cur, sample, k, matches, algorithm, stage, seen>>

\* slip: only the first zone layer is kept (first match wins)
CollectZone_first_only(layers, zone_layer) ==
    IF layers = << >> THEN << zone_layer >> ELSE layers

\* zone_layers.append(zone_layer)
CollectZone(layers, zone_layer) == Append(layers, zone_layer)

\* slip: the loop goes on to the merge whether or not a zone was generated
ZoneDone_unchecked(zone_layer, fb) ==
    LET layers == IF zone_layer # None THEN CollectZone(zone_layers, zone_layer[1])
                  ELSE zone_layers
    IN  /\ zone_layers' = layers
        /\ cur' = None
        /\ IF fb.canceled
           THEN /\ feedback' = Observed(Stepped(fb, steps_per_zone), Len(calls'))
                /\ pc' = "done" /\ run' = Cancelled(results) /\ zone_i' = zone_i
           ELSE /\ feedback' = Stepped(fb, steps_per_zone)
                /\ run' = run
                /\ IF zone_i < Len(rules)
                   THEN pc' = "extract" /\ zone_i' = zone_i + 1
                   ELSE pc' = "merge" /\ zone_i' = zone_i

\* the tail of one iteration of the loop over ZONE_CRITERIA, zone_layer being
\* what _extract_and_process_zone returned (None, or a layer); after the last
\* iteration, the check that some zone was generated
ZoneDone(zone_layer, fb) ==
    LET layers == IF zone_layer # None THEN CollectZone(zone_layers, zone_layer[1])
                  ELSE zone_layers
    IN  /\ zone_layers' = layers
        /\ cur' = None
        /\ IF fb.canceled
           THEN /\ feedback' = Observed(Stepped(fb, steps_per_zone), Len(calls'))
                /\ pc' = "done" /\ run' = Cancelled(results) /\ zone_i' = zone_i
           ELSE /\ feedback' = Stepped(fb, steps_per_zone)
                /\ IF zone_i < Len(rules)
                   THEN pc' = "extract" /\ run' = run /\ zone_i' = zone_i + 1
                   ELSE IF layers = << >>
                   THEN /\ pc' = "done"
                        /\ run' = Raised("No zones were generated")
                        /\ zone_i' = zone_i
                   ELSE pc' = "merge" /\ run' = run /\ zone_i' = zone_i

\* slip: an operation of _extract_and_process_zone that raises ends the run
ZoneFailed_fatal ==
    /\ Fatal("_extract_and_process_zone")
    /\ UNCHANGED <<zone_layers, zone_i, cur>>

\* an operation of _extract_and_process_zone raised: a warning, and None
ZoneFailed == ZoneDone(None, Warned(feedback, << "zone", rules[zone_i].code >>))

\* an operation of _extract_and_process_zone returned: on to the next one
ZoneNext(layer, next) ==
    /\ cur' = Some(layer)
    /\ pc' = next
    /\ UNCHANGED <<feedback, zone_layers, zone_i, run>>

\* _extract_and_process_zone, 1: native:extractbyexpression
ExtractZone ==
    /\ pc = "extract"
    /\ \E outcome \in Outcomes({"no_output"}) :
          /\ Ran("native:extractbyexpression", rules[zone_i].code, "prepared_data",
                 {TEMPORARY_OUTPUT}, << _build_extraction_expression(rules[zone_i]) >>, outcome)
          /\ IF outcome = "raise" THEN ZoneFailed
             ELSE IF outcome = "no_output" THEN ZoneDone(None, feedback)
             ELSE ZoneNext(ExtractByExpression(_build_extraction_expression(rules[zone_i]),
                                               outputs["prepared_data"], zone_i),
                           "dissolve")
    /\ UNCHANGED <<rules, scene, parameters, outputs, results, sample, k, matches, algorithm, stage, seen>>

\* _extract_and_process_zone, 2: native:dissolve
DissolveZone ==
    /\ pc = "dissolve"
    /\ \E outcome \in RunOutcomes :
          /\ Ran("native:dissolve", rules[zone_i].code, "extract_result",
                 {TEMPORARY_OUTPUT}, << >>, outcome)
          /\ IF outcome = "raise" THEN ZoneFailed
             ELSE ZoneNext(Dissolve(cur[1]), "add_code")
    /\ UNCHANGED <<rules, scene, parameters, outputs, results, sample, k, matches, algorithm, stage, seen>>

\* slip: the formula is added right after the code, the fields not refactored
AddCode_then_formula ==
    /\ pc = "add_code"
    /\ \E outcome \in RunOutcomes :
          /\ Ran("native:fieldcalculator", rules[zone_i].code, "dissolve_result",
                 {TEMPORARY_OUTPUT}, << FIELD_CODE, rules[zone_i].code >>, outcome)
          /\ IF outcome = "raise" THEN ZoneFailed
             ELSE ZoneNext(FieldCalculator(cur[1], FIELD_CODE, rules[zone_i].code), "add_formula")
    /\ UNCHANGED <<rules, scene, parameters, outputs, results, sample, k, matches, algorithm, stage, seen>>

\* _extract_and_process_zone, 3: native:fieldcalculator, code
AddCode ==
    /\ pc = "add_code"
    /\ \E outcome \in RunOutcomes :
          /\ Ran("native:fieldcalculator", rules[zone_i].code, "dissolve_result",
                 {TEMPORARY_OUTPUT}, << FIELD_CODE, rules[zone_i].code >>, outcome)
          /\ IF outcome = "raise" THEN ZoneFailed
             ELSE ZoneNext(FieldCalculator(cur[1], FIELD_CODE, rules[zone_i].code), "refactor")
    /\ UNCHANGED <<rules, scene, parameters, outputs, results, sample, k, matches, algorithm, stage, seen>>

\* _extract_and_process_zone, 4: native:refactorfields, fid and code kept
RefactorZone ==
    /\ pc = "refactor"
    /\ \E outcome \in RunOutcomes :
          /\ Ran("native:refactorfields", rules[zone_i].code, "code_result",
                 {TEMPORARY_OUTPUT}, << {FIELD_FID, FIELD_CODE} >>, outcome)
          /\ IF outcome = "raise" THEN ZoneFailed
             ELSE ZoneNext(RefactorFields(cur[1], {FIELD_FID, FIELD_CODE}), "add_formula")
    /\ UNCHANGED <<rules, scene, parameters, outputs, results, sample, k, matches, algorithm, stage, seen>>

\* _extract_and_process_zone, 5: native:fieldcalculator, formula; its output
\* is the zone layer
AddFormula ==
    /\ pc = "add_formula"
    /\ \E outcome \in RunOutcomes :
          /\ Ran("native:fieldcalculator", rules[zone_i].code, "refactor_result",
                 {TEMPORARY_OUTPUT}, << FIELD_FORMULA, rules[zone_i].formula_text >>, outcome)
          /\ IF outcome = "raise" THEN ZoneFailed
             ELSE ZoneDone(Some(FieldCalculator(cur[1], FIELD_FORMULA, rules[zone_i].formula_text)),
                           feedback)
    /\ UNCHANGED <<rules, scene, parameters, outputs, results, sample, k, matches, algorithm, stage, seen>>

\* _merge_zones: a single layer is returned as it is, several are merged by
\* native:mergevectorlayers (no cancellation poll after it)
MergeZones ==
    /\ pc = "merge"
    /\ LET valid_layers == SelectSeq(zone_layers, LAMBDA layer : layer # None)
       IN  IF Len(valid_layers) = 1
           THEN /\ outputs' = Put(outputs, "merged_zones", valid_layers[1])
                /\ calls' = calls
                /\ sinks' = sinks
                /\ EndStep(feedback, FALSE, "reorganize")
           ELSE \E outcome \in RunOutcomes :
                   /\ Ran("native:mergevectorlayers", 0, "zone_layers", {TEMPORARY_OUTPUT},
                          << Len(valid_layers) >>, outcome)
                   /\ IF outcome = "raise"
                      THEN Fatal("native:mergevectorlayers") /\ outputs' = outputs
                      ELSE /\ outputs' = Put(outputs, "merged_zones",
                                             MergeVectorLayers(valid_layers))
                           /\ EndStep(feedback, FALSE, "reorganize")
    /\ UNCHANGED <<rules, scene, parameters, results, zone_layers, zone_i, cur, sample, k, matches, algorithm, stage, seen>>

\* slip: the merged layer is reported as it is, its fields not reorganized
ReorganizeFinalFields_passthrough ==
    /\ pc = "reorganize"
    /\ \E outcome \in RunOutcomes :
          /\ Ran("native:refactorfields", 0, "merged_zones", {parameters[OUTPUT_ZONES]},
                 << {FIELD_FID, FIELD_CODE, FIELD_FORMULA} >>, outcome)
          /\ IF outcome = "raise"
             THEN Fatal("native:refactorfields") /\ UNCHANGED <<outputs, results>>
             ELSE LET final == outputs["merged_zones"]
                  IN  /\ outputs' = Put(outputs, "final", final)
                      /\ results' = Put(results, OUTPUT_ZONES, final)
                      /\ EndStep(feedback, FALSE, "style_zones")
    /\ UNCHANGED <<rules, scene, parameters, zone_layers, zone_i, cur, sample, k, matches, algorithm, stage, seen>>

\* _reorganize_final_fields, reported as results[OUTPUT_ZONES]
ReorganizeFinalFields ==
    /\ pc = "reorganize"
    /\ \E outcome \in RunOutcomes :
          /\ Ran("native:refactorfields", 0, "merged_zones", {parameters[OUTPUT_ZONES]},
                 << {FIELD_FID, FIELD_CODE, FIELD_FORMULA} >>, outcome)
          /\ IF outcome = "raise"
             THEN Fatal("native:refactorfields") /\ UNCHANGED <<outputs, results>>
             ELSE LET final == RefactorFields(outputs["merged_zones"],
                                              {FIELD_FID, FIELD_CODE, FIELD_FORMULA})
                  IN  /\ outputs' = Put(outputs, "final", final)
                      /\ results' = Put(results, OUTPUT_ZONES, final)
                      /\ EndStep(feedback, FALSE, "style_zones")
    /\ UNCHANGED <<rules, scene, parameters, zone_layers, zone_i, cur, sample, k, matches, algorithm, stage, seen>>

\* style of the zones layer, the summary, and "return results"
StyleZones ==
    /\ pc = "style_zones"
    /\ \E outcome \in (IF parameters.apply_styles THEN StyleOutcomes ELSE {"ok"}) :
          Styled(outcome, "final", "lateral_spreading.qml")
    /\ pc' = "done"
    /\ run' = Returned(results)
    /\ UNCHANGED <<rules, scene, parameters, outputs, results, zone_layers, zone_i, cur,
                   sinks, sample, k, matches, algorithm, stage, seen>>

\* where the run is: how many operations other than styles it has called
CancelPoint == Len(NonStyle(calls))

\* the user cancels: feedback.isCanceled() is true from now on.  A run that
\* repeats an earlier one is cancelled during the operation after which that
\* one saw the flag.
Cancel ==
    /\ pc \notin {"idle", "done"}
    /\ ~feedback.canceled
    /\ IF seen.twin THEN seen.cancel = Some(CancelPoint) ELSE seen.cancels < MaxCancels
    /\ feedback' = [feedback EXCEPT !.canceled = TRUE]
    /\ UNCHANGED <<rules, scene, parameters, pc, outputs, results, zone_layers, zone_i, cur,
                   calls, sinks, run, sample, k, matches, algorithm, stage, seen>>

Next ==
    \/ Start
    \/ Clip
    \/ Slope
    \/ StyleSlope
    \/ PolygonizeRaster
    \/ IntersectLayers
    \/ RenameIlField
    \/ ExtractZone
    \/ DissolveZone
    \/ AddCode
    \/ RefactorZone
    \/ AddFormula
    \/ MergeZones
    \/ ReorganizeFinalFields
    \/ StyleZones
    \/ Cancel

Spec == Init /\ [][Next]_vars

(***************************************************************************)
(* Edited rule tables: the shipped table with one bound of its first fully *)
(* bounded rule (201) removed, or with all bounds of one rule removed      *)
(* (they overlap), the tables of a single shipped rule, and the empty      *)
(* table.                                                                  *)
(***************************************************************************)
BoundNames == {"il_min", "il_max", "slope_min", "slope_max"}

Unbound(rule, names) == [f \in DOMAIN rule |-> IF f \in names THEN None ELSE rule[f]]

\* the position of the first rule of the shipped table with all four bounds
FirstBounded ==
    CHOOSE n \in 1..Len(ZONE_CRITERIA) :
        /\ \A b \in BoundNames : ZONE_CRITERIA[n][b] # None
        /\ \A m \in 1..(n - 1) : \E b \in BoundNames : ZONE_CRITERIA[m][b] = None

Tables ==
    { ZONE_CRITERIA }
    \cup { [ZONE_CRITERIA EXCEPT ![FirstBounded] = Unbound(@, {b})] : b \in BoundNames }
    \cup { [ZONE_CRITERIA EXCEPT ![n] = Unbound(@, BoundNames)] : n \in 1..Len(ZONE_CRITERIA) }
    \cup { << ZONE_CRITERIA[n] >> : n \in 1..Len(ZONE_CRITERIA) }
    \cup { << >> }

InitAnyTable ==
    /\ rules \in Tables
    /\ algorithm = "lateral_spreading_analysis"
    /\ scene = SeqOf(Pieces)
    /\ parameters \in { p \in ParameterSets :
                          Given(p.dtm) /\ Given(p.il_layer) /\ Given(p.il_field) }
    /\ seen = NoRuns
    /\ InitRun

SpecAnyTable == InitAnyTable /\ [][Next]_vars

(***************************************************************************)
(* The three pipelines that are a fixed list of stages: seismic            *)
(* microzonation (SZMG_algorithm.py), hydrological analysis                *)
(* (hydrological_analysis_algorithm.py) and geology from points and lines  *)
(* (G4PL_algorithm.py).  A stage is one helper method and the code of      *)
(* processAlgorithm around its call: the delegated operation, the key of   *)
(* the outputs dict it fills, the name of its input, the output parameters *)
(* naming its destinations (none: TEMPORARY_OUTPUT), which are also the    *)
(* keys of the results dict it reports, whether setCurrentStep and the     *)
(* poll of feedback.isCanceled() follow it, and where a missing output is  *)
(* checked, if it is.                                                      *)
(***************************************************************************)
Stage(helper, alg, key, input, dest, poll, check) ==
    [helper |-> helper, alg |-> alg, key |-> key, input |-> input, dest |-> dest,
     poll |-> poll, check |-> check]

\* SeismicMicrozonationAlgorithm.TOTAL_STEPS
SZMG_TOTAL_STEPS == 6

SZMG_clip_raster ==
    Stage("_clip_raster", "gdal:cliprasterbymasklayer", "clipped_dtm",
          "digital_terrain_model_raster_input", {}, TRUE, "none")

SZMG_calculate_slope ==
    Stage("_calculate_slope", "gdal:slope", "slope", "clipped_dtm", {OUTPUT_SLOPE}, TRUE, "none")

SZMG_apply_slope_threshold ==
    Stage("_apply_slope_threshold", "native:modelerrastercalc", "threshold_raster", "slope",
          {}, TRUE, "none")

SZMG_polygonize_raster ==
    Stage("_polygonize_raster", "gdal:polygonize", "polygons", "threshold_raster",
          {}, TRUE, "none")

SZMG_extract_high_slopes ==
    Stage("_extract_high_slopes", "native:extractbyattribute", "extracted", "polygons",
          {}, TRUE, "none")

\* _join_attributes, then _finalize_output_layer, which raises when the layer
\* written is not valid
SZMG_join_attributes ==
    Stage("_join_attributes", "native:joinattributesbylocation", "final", "extracted",
          {OUTPUT_ZONES}, FALSE, "before_poll")

SZMG_STAGES ==
    << SZMG_clip_raster, SZMG_calculate_slope, SZMG_apply_slope_threshold,
       SZMG_polygonize_raster, SZMG_extract_high_slopes, SZMG_join_attributes >>

\* HydrologicalAnalysisStreams.TOTAL_STEPS
HYDRO_TOTAL_STEPS == 4

OUTPUT_VECTOR_RAW == "vector_stream_raw"

OUTPUT_SMOOTH == "smoothed_streams"

OUTPUT_FILLED_DTM == "filled_dtm_wang_liu"

OUTPUT_STREAM == "stream_network_raster"

OUTPUT_DRAINAGE == "drainage_direction"

OUTPUT_HALF_BASIN == "half_basin"

OUTPUT_TCI == "topographic_index_ln_a_tan_b"

\* _fill_sinks_wang_liu raises when the result lacks OUTPUT_FILLED_DEM
HYDRO_fill_sinks_wang_liu ==
    Stage("_fill_sinks_wang_liu", "native:fillsinkswangliu", "filled_dtm",
          "digital_terrain_model_dtm", {OUTPUT_FILLED_DTM}, TRUE, "before_poll")

\* _run_watershed_analysis; after the poll, a missing stream raster raises
HYDRO_run_watershed_analysis ==
    Stage("_run_watershed_analysis", "grass:r.watershed", "watershed", "filled_dtm",
          {OUTPUT_DRAINAGE, OUTPUT_HALF_BASIN, OUTPUT_STREAM, OUTPUT_TCI}, TRUE, "after_poll")

HYDRO_raster_to_vector ==
    Stage("_raster_to_vector", "grass:r.to.vect", "vector_raw", "watershed",
          {OUTPUT_VECTOR_RAW}, TRUE, "none")

HYDRO_smooth_geometry ==
    Stage("_smooth_geometry", "native:smoothgeometry", "smoothed", "vector_raw",
          {OUTPUT_SMOOTH}, FALSE, "none")

HYDRO_STAGES ==
    << HYDRO_fill_sinks_wang_liu, HYDRO_run_watershed_analysis, HYDRO_raster_to_vector,
       HYDRO_smooth_geometry >>

\* GeologyAlgorithm.TOTAL_STEPS
G4PL_TOTAL_STEPS == 10

OUTPUT_POLYGONS == "intermediate_polygons"

OUTPUT_CLEAN_POINTS == "clean_points"

OUTPUT_SEGMENTS == "line_segments"

OUTPUT_GEOLOGICAL_POLYGONS == "geological_polygons"

OUTPUT_CONTACTS == "geological_contacts"

G4PL_remove_duplicate_points ==
    Stage("_remove_duplicate_points", "native:deleteduplicategeometries", "clean_points",
          "points_with_geological_information", {OUTPUT_CLEAN_POINTS}, TRUE, "none")

\* _polygonize_lines; after the poll, no polygons raises
G4PL_polygonize_lines ==
    Stage("_polygonize_lines", "native:polygonize", "polygons",
          "line_drawing_geological_contacts", {}, TRUE, "after_poll")

\* slip: the cleaned polygons are written where the cleaned points are
G4PL_remove_duplicate_polygons_to_clean_points ==
    Stage("_remove_duplicate_polygons", "native:deleteduplicategeometries", "clean_polygons",
          "polygons", {OUTPUT_CLEAN_POINTS}, TRUE, "none")

G4PL_remove_duplicate_polygons ==
    Stage("_remove_duplicate_polygons", "native:deleteduplicategeometries", "clean_polygons",
          "polygons", {OUTPUT_POLYGONS}, TRUE, "none")

\* _join_attributes_to_polygons; after the poll, _validate_attribute_join,
\* which only warns
G4PL_join_attributes_to_polygons ==
    Stage("_join_attributes_to_polygons", "native:joinattributesbylocation",
          "geological_polygons", "clean_polygons", {OUTPUT_GEOLOGICAL_POLYGONS}, TRUE, "none")

G4PL_convert_polygons_to_lines ==
    Stage("_convert_polygons_to_lines", "native:polygonstolines", "polygon_lines",
          "geological_polygons", {}, TRUE, "none")

G4PL_remove_duplicate_vertices ==
    Stage("_remove_duplicate_vertices", "native:removeduplicatevertices", "cleaned_lines",
          "polygon_lines", {}, TRUE, "none")

G4PL_explode_lines ==
    Stage("_explode_lines", "native:explodelines", "exploded_lines", "cleaned_lines",
          {}, TRUE, "none")

G4PL_remove_duplicate_line_segments ==
    Stage("_remove_duplicate_line_segments", "native:deleteduplicategeometries",
          "clean_segments", "exploded_lines", {OUTPUT_SEGMENTS}, TRUE, "none")

G4PL_dissolve_by_attribute ==
    Stage("_dissolve_by_attribute", "native:dissolve", "dissolved_lines", "clean_segments",
          {}, TRUE, "none")

G4PL_multipart_to_singleparts ==
    Stage("_multipart_to_singleparts", "native:multiparttosingleparts", "contacts",
          "dissolved_lines", {OUTPUT_CONTACTS}, FALSE, "none")

G4PL_STAGES ==
    << G4PL_remove_duplicate_points, G4PL_polygonize_lines, G4PL_remove_duplicate_polygons,
       G4PL_join_attributes_to_polygons, G4PL_convert_polygons_to_lines,
       G4PL_remove_duplicate_vertices, G4PL_explode_lines,
       G4PL_remove_duplicate_line_segments, G4PL_dissolve_by_attribute,
       G4PL_multipart_to_singleparts >>

\* what a delegated operation of these pipelines returned
Product(key) == [layer |-> key]

\* slip: the failure of a stage is logged and the run returns what it has
StageFailed_returns(helper) == Returned(results)

\* a stage raised: QgsProcessingException leaves processAlgorithm (re-raised,
\* or wrapped by "except Exception")
StageFailed(helper) == Raised(helper)

\* one stage of processAlgorithm: the helper's call of processing.run, the
\* results it reports, setCurrentStep, the poll, the check of its output
RunStage(stages) ==
    /\ pc = "stage"
    /\ LET st == stages[stage]
           output == IF st.dest = {} THEN {TEMPORARY_OUTPUT}
                     ELSE { parameters[d] : d \in st.dest }
       IN  \E outcome \in Outcomes(IF st.check = "none" THEN {} ELSE {"no_output"}) :
              /\ Ran(st.alg, 0, st.input, output, << >>, outcome)
              /\ IF outcome = "raise" \/ (outcome = "no_output" /\ st.check = "before_poll")
                 THEN /\ pc' = "done"
                      /\ run' = StageFailed(st.helper)
                      /\ UNCHANGED <<feedback, outputs, results, stage>>
                 ELSE LET product == IF outcome = "ok" THEN Some(Product(st.key)) ELSE None
                          reported == [d \in DOMAIN results \cup st.dest |->
                                          IF d \in st.dest THEN product ELSE results[d]]
                      IN  /\ outputs' = Put(outputs, st.key, product)
                          /\ results' = reported
                          /\ IF st.poll /\ feedback.canceled
                             THEN /\ feedback' = Observed([feedback EXCEPT !.current_step = stage],
                                                          Len(calls'))
                                  /\ pc' = "done"
                                  /\ run' = Cancelled(reported)
                                  /\ stage' = stage
                             ELSE /\ feedback' = IF st.poll
                                                 THEN [feedback EXCEPT !.current_step = stage]
                                                 ELSE feedback
                                  /\ IF outcome = "no_output"
                                     THEN /\ pc' = "done"
                                          /\ run' = StageFailed(st.helper)
                                          /\ stage' = stage
                                     ELSE IF stage = Len(stages)
                                     THEN /\ pc' = "done"
                                          /\ run' = Returned(reported)
                                          /\ stage' = stage
                                     ELSE /\ pc' = "stage"
                                          /\ run' = run
                                          /\ stage' = stage + 1
    /\ UNCHANGED <<rules, algorithm, scene, parameters, zone_layers, zone_i, cur, sample, k,
                   matches, seen>>

\* SeismicMicrozonationAlgorithm.processAlgorithm
SeismicMicrozonation ==
    /\ algorithm = "seismic_microzonation_morphology"
    /\ RunStage(SZMG_STAGES)

\* HydrologicalAnalysisStreams.processAlgorithm
HydrologicalAnalysis ==
    /\ algorithm = "hydrological_analysis_stream_network"
    /\ RunStage(HYDRO_STAGES)

\* GeologyAlgorithm.processAlgorithm
Geology ==
    /\ algorithm = "geology_from_points_and_lines"
    /\ RunStage(G4PL_STAGES)

\* the output parameters of each algorithm
OutputParameters ==
    [lateral_spreading_analysis |-> {OUTPUT_SLOPE, OUTPUT_ZONES},
     seismic_microzonation_morphology |-> {OUTPUT_SLOPE, OUTPUT_ZONES},
     hydrological_analysis_stream_network |->
         {OUTPUT_VECTOR_RAW, OUTPUT_SMOOTH, OUTPUT_FILLED_DTM, OUTPUT_STREAM,
          OUTPUT_DRAINAGE, OUTPUT_HALF_BASIN, OUTPUT_TCI},
     geology_from_points_and_lines |->
         {OUTPUT_POLYGONS, OUTPUT_CLEAN_POINTS, OUTPUT_SEGMENTS,
          OUTPUT_GEOLOGICAL_POLYGONS, OUTPUT_CONTACTS}]

\* what the user may give as the destination of an output: a temporary
\* layer, or one of two files
Destinations == {TEMPORARY_OUTPUT, "first.gpkg", "second.gpkg"}

\* the analysis area of the lateral spreading runs: one piece in rule 101
\* and one in rule 300
PluginScene ==
    << [INDEX |-> [w |-> 1, f |-> 0], DN |-> [w |-> 16, f |-> 0]],
       [INDEX |-> [w |-> 1, f |-> 0], DN |-> [w |-> 3, f |-> 0]] >>

\* a run of any of the four algorithms, its outputs sent to any destinations
InitPlugin ==
    /\ rules = ZONE_CRITERIA
    /\ algorithm \in DOMAIN OutputParameters
    /\ IF algorithm = "lateral_spreading_analysis"
       THEN /\ scene = PluginScene
            /\ parameters \in [dtm : {Some("dtm")}, il_layer : {Some("il_layer")},
                               il_field : {Some("IL")}, apply_styles : BOOLEAN,
                               slope_output : Destinations, zones_output : Destinations]
            /\ pc = "start"
            /\ stage = 0
       ELSE /\ scene = << >>
            /\ parameters \in [OutputParameters[algorithm] -> Destinations]
            /\ pc = "stage"
            /\ stage = 1
    /\ seen = NoRuns
    /\ NewRun

NextPlugin ==
    \/ Next
    \/ SeismicMicrozonation
    \/ HydrologicalAnalysis
    \/ Geology

SpecPlugin == InitPlugin /\ [][NextPlugin]_vars

(***************************************************************************)
(* Runs of the lateral spreading algorithm one after the other in the same *)
(* session (each on an instance of its own, from createInstance;           *)
(* ZONE_CRITERIA is a class attribute they share): a later run on any      *)
(* inputs, or the same run again with the style flag set either way, the   *)
(* delegated operations ending as they did and the user cancelling during  *)
(* the same operation.                                                     *)
(***************************************************************************)
\* the analysis areas of the repeated runs: one or two of the pieces of
\* PluginScene, in either order
RerunScenes ==
    { << PluginScene[a] >> : a \in 1..Len(PluginScene) }
    \cup { << PluginScene[a], PluginScene[b] >> : a, b \in 1..Len(PluginScene) }

RerunParameters ==
    { p \in ParameterSets : Given(p.dtm) /\ Given(p.il_layer) /\ Given(p.il_field) }

\* what the zone layers of the run show of the classification: whether the
\* rule of a code selected a piece with given index and slope
Observations ==
    UNION { { [code |-> rules[zone_layers[a].rule].code,
               piece |-> scene[n],
               selected |-> n \in Cover(zone_layers[a])] : n \in 1..Len(scene) } :
            a \in 1..Len(zone_layers) }

InitRerun ==
    /\ rules = ZONE_CRITERIA
    /\ algorithm = "lateral_spreading_analysis"
    /\ scene \in RerunScenes
    /\ parameters \in RerunParameters
    /\ seen = NoRuns
    /\ InitRun

\* processAlgorithm is entered again: its locals are new, the class
\* attribute is what the earlier runs left
Restart ==
    /\ pc' = "start"
    /\ stage' = 0
    /\ feedback' = [canceled |-> FALSE, current_step |-> 0, warnings |-> << >>,
                    observed |-> None]
    /\ outputs' = EmptyDict
    /\ results' = EmptyDict
    /\ zone_layers' = << >>
    /\ zone_i' = 0
    /\ cur' = None
    /\ calls' = << >>
    /\ sinks' = << >>
    /\ run' = Running
    /\ UNCHANGED <<rules, algorithm, sample, k, matches>>

\* a later run, on any analysis area and parameters
RunAgain ==
    /\ pc = "done"
    /\ seen.runs + 1 < MaxRuns
    /\ seen' = [runs |-> seen.runs + 1,
                faults |-> Faults,
                cancels |-> seen.cancels + (IF feedback.canceled THEN 1 ELSE 0),
                obs |-> seen.obs \cup Observations,
                twin |-> FALSE, log |-> << >>, cancel |-> None, last |-> None]
    /\ scene' \in RerunScenes
    /\ parameters' \in RerunParameters
    /\ Restart

\* the first run again on the same analysis area and parameters, the style
\* flag set either way
RunTwin ==
    /\ pc = "done"
    /\ seen.runs = 0
    /\ seen.runs + 1 < MaxRuns
    /\ Faults = 0 \/ ~feedback.canceled
    /\ seen' = [runs |-> 1, faults |-> 0, cancels |-> 0, obs |-> {},
                twin |-> TRUE,
                log |-> NonStyle(calls),
                cancel |-> IF feedback.observed = None THEN None
                           ELSE Some(Len(NonStyle(calls)) - 1),
                last |-> Some([run |-> run, apply_styles |-> parameters.apply_styles])]
    /\ scene' = scene
    /\ parameters' \in { [parameters EXCEPT !.apply_styles = flag] : flag \in BOOLEAN }
    /\ Restart

\* the repeated run has reached the operation during which the user
\* cancelled the first one
MustCancel == seen.twin /\ ~feedback.canceled /\ seen.cancel = Some(CancelPoint)

NextRerun ==
    \/ IF MustCancel THEN Cancel ELSE Next
    \/ RunAgain
    \/ RunTwin

SpecRerun == InitRerun /\ [][NextRerun]_vars

(***************************************************************************)
(* Properties of the classification (SpecClassify).                        *)
(***************************************************************************)
\* every rule of the table has been evaluated on the feature
Classified == k = Len(rules)

\* fixed-point value equal to the integer n
IsInt(x, n) == x.w = n /\ x.f = 0

\* x >= y on fixed-point values
GeVal(x, y) == x.w > y.w \/ (x.w = y.w /\ x.f >= y.f)

\* membership in the interval (lo, hi], an absent bound being no bound
InInterval(x, lo, hi) ==
    /\ (lo = None \/ Gt(x, lo[1]))
    /\ (hi = None \/ Le(x, hi[1]))

\* the set of codes in matches
MatchedCodes == { matches[i] : i \in 1..Len(matches) }

\* C1: with the shipped table no (index, slope) pair satisfies two rules: the
\* rules' rectangles are pairwise disjoint at every sampled point, and the
\* classification of a feature never collects two codes.
C1_AtMostOneMatch ==
    /\ Len(matches) <= 1
    /\ \A i, j \in 1..Len(rules) :
          i # j => ~(Selects(rules[i], sample) /\ Selects(rules[j], sample))

\* C1 witness: the corner (index 2, slope 5) shared by the closures of four
\* rectangles is classified as 300 alone.
C1_Witness ==
    /\ Classified
    /\ IsInt(sample.INDEX, 2) /\ IsInt(sample.DN, 5)
    /\ matches = << 300 >>

\* C2 as stated: every classified feature has exactly one matching rule.
C2_ExactlyOneAlways == Classified => Len(matches) = 1

\* C2 (amended): a classified feature has at most one matching rule, and
\* exactly one whenever its index is > 0 and its slope is > 2.
C2_ExactlyOneInsideDomain ==
    Classified =>
        /\ Len(matches) <= 1
        /\ (Gt(sample.INDEX, 0) /\ Gt(sample.DN, 2)) => Len(matches) = 1

\* C2 witness: index 3, slope 3 (inside the domain) has the single code 202.
C2_Witness ==
    /\ Classified
    /\ IsInt(sample.INDEX, 3) /\ IsInt(sample.DN, 3)
    /\ matches = << 202 >>

\* C3: a rule selects a feature iff the index lies in (il_min, il_max] and the
\* slope in (slope_min, slope_max], absent bounds being unbounded; and the
\* expression built for each rule is exactly that conjunction: one condition
\* on INDEX and one on DN, holding "> min" iff min is present (0 included)
\* and "<= max" iff max is present, and nothing else.
C3_MatchIffBothMemberships ==
    /\ \A i \in 1..k :
          (rules[i].code \in MatchedCodes) <=>
              /\ InInterval(sample.INDEX, rules[i].il_min, rules[i].il_max)
              /\ InInterval(sample.DN, rules[i].slope_min, rules[i].slope_max)
    /\ \A i \in 1..Len(rules) :
          LET e == _build_extraction_expression(rules[i])
              Expected(f, lo, hi) ==
                  { Comparison(f, ">", lo[n]) : n \in 1..Len(lo) }
                  \cup { Comparison(f, "<=", hi[n]) : n \in 1..Len(hi) }
              Got(c) == { c[n] : n \in 1..Len(c) }
          IN  /\ Len(e) = 2
              /\ Got(e[1]) = Expected(FIELD_INDEX, rules[i].il_min, rules[i].il_max)
              /\ Got(e[2]) = Expected(FIELD_DN, rules[i].slope_min, rules[i].slope_max)
              /\ Len(e[1]) = Cardinality(Got(e[1]))
              /\ Len(e[2]) = Cardinality(Got(e[2]))

\* C3 witness: index 2 and slope 15, both on an included upper bound, are
\* selected by rule 201 and by no other rule.
C3_Witness ==
    /\ Classified
    /\ IsInt(sample.INDEX, 2) /\ IsInt(sample.DN, 15)
    /\ matches = << 201 >>

\* C4: for an index in (0, 2], slope 15 is classified 201 only, and every
\* slope above 15 (however little) is classified 101 only.
C4_BoundaryAtSlope15 ==
    (Classified /\ Gt(sample.INDEX, 0) /\ Le(sample.INDEX, 2)) =>
        /\ IsInt(sample.DN, 15) => matches = << 201 >>
        /\ Gt(sample.DN, 15) => matches = << 101 >>

\* C4 witness: classify(1.5, 15.0) has ended with 201 alone.
C4_Witness ==
    /\ Classified
    /\ sample.INDEX.w = 1 /\ 2 * sample.INDEX.f = Parts
    /\ IsInt(sample.DN, 15)
    /\ matches = << 201 >>

\* C5: every feature with 0 < index <= 2 and 2 < slope <= 5, classify(1.0, 3.0)
\* among them, is classified 300 and nothing else.
C5_LowSusceptibility ==
    (/\ Classified
     /\ Gt(sample.INDEX, 0) /\ Le(sample.INDEX, 2)
     /\ Gt(sample.DN, 2) /\ Le(sample.DN, 5)) => matches = << 300 >>

\* C5 witness: classify(1.0, 3.0) has ended with 300 alone.
C5_Witness ==
    /\ Classified
    /\ IsInt(sample.INDEX, 1) /\ IsInt(sample.DN, 3)
    /\ matches = << 300 >>

\* C6: every feature with index > 15 and slope > 2 is classified 104 and
\* nothing else.
C6_RespectAboveIndex15 ==
    (Classified /\ Gt(sample.INDEX, 15) /\ Gt(sample.DN, 2)) => matches = << 104 >>

\* C6 witness: classify(20.0, 3.0) has ended with 104 alone.
C6_Witness ==
    /\ Classified
    /\ IsInt(sample.INDEX, 20) /\ IsInt(sample.DN, 3)
    /\ matches = << 104 >>

\* C7: an index <= 0 matches no rule, whatever the slope.
C7_NoMatchAtOrBelowZero ==
    Le(sample.INDEX, 0) => matches = << >>

\* C7 witness: classify(0.0, 3.0) has ended with no match.
C7_Witness ==
    /\ Classified
    /\ IsInt(sample.INDEX, 0) /\ IsInt(sample.DN, 3)
    /\ matches = << >>

\* C8 as stated: index 1e9 with slope > 15 matches rule 101.
C8_HugeIndexMatches101 ==
    (Classified /\ IsInt(sample.INDEX, Huge) /\ Gt(sample.DN, 15)) =>
        101 \in MatchedCodes

\* C8 (amended): index 1e9 with slope > 15 matches rule 104, the rule whose
\* index range has no upper bound, and only that rule.
C8_HugeIndexMatches104 ==
    (Classified /\ IsInt(sample.INDEX, Huge) /\ Gt(sample.DN, 15)) =>
        matches = << 104 >>

\* C8 witness: index 1e9 with slope 16 has ended with 104 alone.
C8_Witness ==
    /\ Classified
    /\ IsInt(sample.INDEX, Huge) /\ IsInt(sample.DN, 16)
    /\ matches = << 104 >>

\* C9: an absent upper bound is no bound.  For every lower bound lo (absent
\* or an integer), the condition built with max_val = None holds only
\* lower-bound tests ("> lo", none when lo is absent too), and once a value
\* of the feature satisfies it every value at least as large satisfies it,
\* the large value 1e9 included; the same for the ranges of the table's
\* rules whose upper bound is absent.
C9_AbsentUpperBoundIsUnbounded ==
    /\ \A field \in {FIELD_INDEX, FIELD_DN} :
       \A lo \in {None} \cup { Some(n) : n \in (0 - 1)..MaxWhole } :
          LET c == _build_range_condition(field, lo, None)
              Holds(v) == \A n \in 1..Len(c) :
                              EvalComparison(c[n], [sample EXCEPT ![field] = v])
          IN  /\ \A n \in 1..Len(c) : c[n].op = ">" /\ lo # None /\ c[n].val = lo[1]
              /\ Len(c) = Len(lo)
              /\ Holds(sample[field]) =>
                    \A v \in Values : GeVal(v, sample[field]) => Holds(v)
    /\ \A i \in 1..Len(rules) :
          /\ (rules[i].slope_max = None /\ Selects(rules[i], sample)) =>
                \A v \in Values :
                    GeVal(v, sample.DN) => Selects(rules[i], [sample EXCEPT !.DN = v])
          /\ (rules[i].il_max = None /\ Selects(rules[i], sample)) =>
                \A v \in Values :
                    GeVal(v, sample.INDEX) => Selects(rules[i], [sample EXCEPT !.INDEX = v])

\* C9 witness: a feature with index 1 and slope 1e9 has been classified 101,
\* by the rule whose slope range has no upper bound.
C9_Witness ==
    /\ Classified
    /\ IsInt(sample.INDEX, 1) /\ IsInt(sample.DN, Huge)
    /\ matches = << 101 >>

(***************************************************************************)
(* Properties of the zone loop of processAlgorithm (SpecAnyTable).         *)
(***************************************************************************)
\* the positions of the rules whose loop iteration is over
Completed ==
    IF pc \in {"extract", "dissolve", "add_code", "refactor", "add_formula"}
    THEN 1..(zone_i - 1)
    ELSE 1..zone_i

\* an operation run for the rule at position j did not return normally
Faulted(j) ==
    \E n \in 1..Len(calls) : calls[n].zone = rules[j].code /\ calls[n].outcome # "ok"

\* the completed rules that select piece n and whose operations all returned
KeptFor(n) ==
    { j \in Completed : Selects(rules[j], scene[n]) /\ ~Faulted(j) }

\* the zone layers that cover piece n
LayersOver(n) == { a \in 1..Len(zone_layers) : n \in Cover(zone_layers[a]) }

\* C10: every rule is evaluated on its own and every match is kept, in table
\* order, for any rule table.  The zone layers are those of the completed
\* rules whose operations returned, in the order of the table; each holds
\* exactly the pieces its rule selects, under the rule's code; so a piece
\* that satisfies k such rules lies in k zone layers with k different codes,
\* and in k features of the reported zones output.
C10_AllMatchesInTableOrder ==
    /\ \A a, b \in 1..Len(zone_layers) :
          a < b => zone_layers[a].rule < zone_layers[b].rule
    /\ { zone_layers[a].rule : a \in 1..Len(zone_layers) }
          = { j \in Completed : ~Faulted(j) }
    /\ \A a \in 1..Len(zone_layers) :
          LET layer == zone_layers[a]
          IN  /\ Cover(layer)
                    = { n \in 1..Len(scene) : Selects(rules[layer.rule], scene[n]) }
              /\ \A m \in 1..Len(layer.feats) :
                    layer.feats[m].attrs[FIELD_CODE] = rules[layer.rule].code
    /\ \A n \in 1..Len(scene) :
          /\ Cardinality(LayersOver(n)) = Cardinality(KeptFor(n))
          /\ Cardinality({ rules[zone_layers[a].rule].code : a \in LayersOver(n) })
                = Cardinality(KeptFor(n))
    /\ (run.kind = "returned" /\ OUTPUT_ZONES \in DOMAIN run.value) =>
          LET final == run.value[OUTPUT_ZONES].feats
          IN  \A n \in 1..Len(scene) :
                 { final[m].attrs[FIELD_CODE] :
                     m \in { x \in 1..Len(final) : n \in final[x].geom } }
                    = { rules[j].code : j \in KeptFor(n) }

\* C10 witness: with an overlapping table, a run has returned a zones output
\* in which some piece satisfies two rules, lies in two zone layers and is
\* reported under two codes.
C10_Witness ==
    /\ run.kind = "returned"
    /\ OUTPUT_ZONES \in DOMAIN run.value
    /\ \E n \in 1..Len(scene) :
          /\ Cardinality({ j \in 1..Len(rules) : Selects(rules[j], scene[n]) }) = 2
          /\ Cardinality(LayersOver(n)) = 2
          /\ LET final == run.value[OUTPUT_ZONES].feats
             IN  Cardinality({ final[m].attrs[FIELD_CODE] :
                               m \in { x \in 1..Len(final) : n \in final[x].geom } }) = 2

(***************************************************************************)
(* Properties of the rule table (SpecClassify).                            *)
(***************************************************************************)
\* C11: the table is well formed: the codes of its rules are pairwise
\* distinct, and every rule bounds the index on at least one side and the
\* slope on at least one side.
C11_TableWellFormed ==
    /\ \A i, j \in 1..Len(rules) : i # j => rules[i].code # rules[j].code
    /\ \A i \in 1..Len(rules) :
          /\ ~(rules[i].il_min = None /\ rules[i].il_max = None)
          /\ ~(rules[i].slope_min = None /\ rules[i].slope_max = None)

\* C11 witness: the table in use holds a rule with one bound of the index
\* absent (104: no il_max) and rules with the slope's upper bound absent,
\* and it has been evaluated on a feature only that rule selects.
C11_Witness ==
    /\ Classified
    /\ \E i \in 1..Len(rules) :
          /\ rules[i].il_min # None /\ rules[i].il_max = None
          /\ rules[i].slope_min # None /\ rules[i].slope_max = None
          /\ matches = << rules[i].code >>
    /\ IsInt(sample.INDEX, 16) /\ IsInt(sample.DN, 16)

\* severity of a category: LowSusceptibility < Susceptibility < Respect
Severity(zone_type) ==
    CASE zone_type = ZoneType.LOW_SUSCEPTIBILITY -> 1
      [] zone_type = ZoneType.SUSCEPTIBILITY -> 2
      [] zone_type = ZoneType.RESPECT -> 3

\* the severities of the rules of the table that select a feature
SeveritiesOf(feature) ==
    { Severity(rules[n].zone_type) :
        n \in { m \in 1..Len(rules) : Selects(rules[m], feature) } }

\* the severities of the rules the classified feature matched
MatchedSeverities ==
    { Severity(rules[n].zone_type) :
        n \in { m \in 1..Len(rules) : rules[m].code \in MatchedCodes } }

\* C13: the table is monotonic in severity: if the classified feature and
\* another input both match a rule and the other input has an index and a
\* slope at least as large, its category is at least as severe.
C13_MonotonicSeverity ==
    (Classified /\ matches # << >>) =>
        \A g \in Features :
            (GeVal(g.INDEX, sample.INDEX) /\ GeVal(g.DN, sample.DN)) =>
                \A a \in MatchedSeverities : \A b \in SeveritiesOf(g) : a <= b

\* C13 witness: index 1, slope 6 is Susceptibility (201); a larger index at
\* the same slope is Respect, a smaller slope at the same index is
\* LowSusceptibility.
C13_Witness ==
    /\ Classified
    /\ IsInt(sample.INDEX, 1) /\ IsInt(sample.DN, 6)
    /\ MatchedSeverities = {2}
    /\ \E g \in Features :
          /\ GeVal(g.INDEX, sample.INDEX) /\ g.DN = sample.DN
          /\ SeveritiesOf(g) = {3}
    /\ \E g \in Features :
          /\ g.INDEX = sample.INDEX /\ GeVal(sample.DN, g.DN)
          /\ SeveritiesOf(g) = {1}

(***************************************************************************)
(* Properties of the zones output (Spec, SpecAnyTable).                    *)
(***************************************************************************)
\* the pair of a piece lies in both ranges of the rule
Satisfies(piece, rule) ==
    /\ InInterval(piece.INDEX, rule.il_min, rule.il_max)
    /\ InInterval(piece.DN, rule.slope_min, rule.slope_max)

\* a delegated operation with this name is in the log
Called(alg) == \E n \in 1..Len(calls) : calls[n].alg = alg

\* C14: every feature of the reported zones output carries exactly the
\* attributes fid, code and formula, whether the zone layers were merged or
\* the only one was passed on; its code and formula are those of one rule of
\* the table, the rule every piece of the feature satisfies.
C14_FinalFieldsExactly ==
    OUTPUT_ZONES \in DOMAIN results =>
        LET final == results[OUTPUT_ZONES]
        IN  /\ final.fields = {FIELD_FID, FIELD_CODE, FIELD_FORMULA}
            /\ \A m \in 1..Len(final.feats) :
                  LET feat == final.feats[m]
                  IN  /\ DOMAIN feat.attrs = {FIELD_FID, FIELD_CODE, FIELD_FORMULA}
                      /\ feat.geom # {}
                      /\ \E j \in 1..Len(rules) :
                            /\ feat.attrs[FIELD_CODE] = rules[j].code
                            /\ feat.attrs[FIELD_FORMULA] = rules[j].formula_text
                            /\ \A n \in feat.geom : Satisfies(scene[n], rules[j])

\* C14 witness: a run over a table of one rule has returned a zones output
\* of one feature with the three attributes, and no merge was run.
C14_Witness ==
    /\ run.kind = "returned"
    /\ OUTPUT_ZONES \in DOMAIN run.value
    /\ Len(rules) = 1
    /\ ~Called("native:mergevectorlayers")
    /\ LET final == run.value[OUTPUT_ZONES]
       IN  /\ Len(final.feats) = 1
           /\ DOMAIN final.feats[1].attrs = {FIELD_FID, FIELD_CODE, FIELD_FORMULA}
           /\ final.feats[1].attrs[FIELD_CODE] = rules[1].code

\* the pieces of the analysis area that satisfy no rule of the table
Unmatched == { n \in 1..Len(scene) : \A j \in 1..Len(rules) : ~Satisfies(scene[n], rules[j]) }

\* all required parameters were given
ParametersGiven ==
    Given(parameters.dtm) /\ Given(parameters.il_layer) /\ Given(parameters.il_field)

\* C18: a piece that satisfies no rule lies in no zone layer and in no
\* feature of the zones output, and it never makes the run fail: a run ends
\* with an exception only if a parameter is missing or a delegated operation
\* did not return normally, and a run that ends with neither of these and
\* without cancellation reports a zones output holding every other piece.
C18_NoMatchIsSilent ==
    /\ \A a \in 1..Len(zone_layers) : Cover(zone_layers[a]) \cap Unmatched = {}
    /\ OUTPUT_ZONES \in DOMAIN results =>
          Cover(results[OUTPUT_ZONES]) \cap Unmatched = {}
    /\ run.kind = "raised" => (~ParametersGiven \/ Faults > 0)
    /\ (pc = "done" /\ ParametersGiven /\ Faults = 0 /\ ~feedback.canceled) =>
          /\ run.kind = "returned"
          /\ OUTPUT_ZONES \in DOMAIN run.value
          /\ Cover(run.value[OUTPUT_ZONES]) = (1..Len(scene)) \ Unmatched

\* C18 witness: a run over an area with pieces that satisfy no rule and
\* pieces that satisfy one has returned the zones output, the former absent
\* from it and the latter present.
C18_Witness ==
    /\ run.kind = "returned"
    /\ OUTPUT_ZONES \in DOMAIN run.value
    /\ Unmatched # {}
    /\ Unmatched # 1..Len(scene)
    /\ Cover(run.value[OUTPUT_ZONES]) = (1..Len(scene)) \ Unmatched
    /\ rules = ZONE_CRITERIA


(***************************************************************************)
(* Cancellation polls of the lateral spreading pipeline (Spec).            *)
(***************************************************************************)
\* C16: the flag is polled at every stage boundary of the pipeline, the
\* style step, the intersection and the five operations of a rule included:
\* a delegated operation that finishes while the flag is set is the last
\* one, the run ends at the boundary after it
C16_PolledAtEveryBoundary ==
    [][(feedback.canceled /\ calls' # calls) => pc' = "done"]_vars

(***************************************************************************)
(* Cancellation in the four pipelines (SpecPlugin).                        *)
(***************************************************************************)
\* C15: in each of the four pipelines, once a poll of the cancellation flag
\* has seen it set, the run is over and processAlgorithm has returned the
\* empty mapping, without any output key (the slope layer included) and
\* without calling any further delegated operation
C15_CancelledRunReturnsEmpty ==
    feedback.observed # None =>
        /\ pc = "done"
        /\ run = Returned(EmptyDict)
        /\ Len(calls) = feedback.observed[1]

\* a lateral spreading run cancelled after the slope layer was written and
\* reported in results: the mapping returned does not hold it
C15_Witness ==
    /\ algorithm = "lateral_spreading_analysis"
    /\ feedback.observed # None
    /\ OUTPUT_SLOPE \in DOMAIN results
    /\ Destination(parameters[OUTPUT_SLOPE], 2) \in DOMAIN sinks
    /\ run = Returned(EmptyDict)

(***************************************************************************)
(* Failures of delegated operations (SpecPlugin).                          *)
(***************************************************************************)
\* the n-th call is one of the five operations run for a rule of the table
PerRule(n) == calls[n].zone # 0

\* the n-th call is the style operation of _apply_style
IsStyle(n) == calls[n].alg = "native:setlayerstyle"

\* the run ended with an exception right after the n-th call
FatalAt(n) == n = Len(calls) /\ pc = "done" /\ run.kind = "raised"

WrittenOutputsKept ==
    \A n \in 1..Len(calls) :
        calls[n].outcome = "ok" =>
            \A value \in calls[n].output :
                /\ Destination(value, n) \in DOMAIN sinks
                /\ sinks[Destination(value, n)] = [alg |-> calls[n].alg, call |-> n]

\* the output parameters of the run name different destinations, unless they
\* ask for temporary layers
DistinctDestinations ==
    \A a, b \in OutputParameters[algorithm] :
        (a # b /\ parameters[a] = parameters[b]) => parameters[a] = TEMPORARY_OUTPUT

C20_StylesDoNotInterfere ==
    /\ \A n \in 1..Len(calls) : IsStyle(n) => parameters.apply_styles
    /\ (run.kind = "raised" /\ calls # << >>) => ~IsStyle(Len(calls))
    /\ seen.twin =>
          LET ops == NonStyle(calls)
          IN  /\ Len(ops) <= Len(seen.log)
              /\ \A n \in 1..Len(ops) : ops[n] = seen.log[n]
              /\ pc = "done" => (ops = seen.log /\ run = seen.last[1].run)

\* a run without styles repeated with styles, the style operation raising:
\* the same zones are returned
C20_Witness ==
    /\ seen.twin
    /\ pc = "done"
    /\ ~seen.last[1].apply_styles
    /\ parameters.apply_styles
    /\ \E n \in 1..Len(calls) : IsStyle(n) /\ calls[n].outcome = "raise"
    /\ run.kind = "returned"
    /\ OUTPUT_ZONES \in DOMAIN run.value
    /\ run = seen.last[1].run

(***************************************************************************)
(* Coverage of the shipped table (SpecClassify).                           *)
(***************************************************************************)
\* the rules of the table that select the feature being classified
SelectingRules == { n \in 1..Len(rules) : Selects(rules[n], sample) }

\* C27: with the shipped table, an (index, slope) pair matches some rule iff
\* index > 0 and slope > 2: outside that quadrant no rule selects it, inside
\* exactly one rule does, and the classification collects that rule's code
C27_CoveredQuadrant ==
    LET inside == Gt(sample.INDEX, 0) /\ Gt(sample.DN, 2)
    IN  /\ (SelectingRules # {}) <=> inside
        /\ inside => Cardinality(SelectingRules) = 1
        /\ Classified => (matches # << >>) <=> inside
        /\ (Classified /\ inside) =>
              \E n \in SelectingRules : matches = << rules[n].code >>

\* just inside the quadrant: index 0.5, slope 2.5 is classified as 300
C27_Witness ==
    /\ Classified
    /\ sample.INDEX = [w |-> 0, f |-> 1]
    /\ sample.DN = [w |-> 2, f |-> 1]
    /\ SelectingRules # {}
    /\ matches = << 300 >>

(***************************************************************************)
(* Validation of the lateral spreading parameters (Spec).                  *)
(***************************************************************************)
\* the message for the first required parameter, in the order DTM, IL layer,
\* IL field, that is missing or empty
FirstMissing ==
    IF ~Given(parameters.dtm) THEN "Digital Terrain Model (DTM) is required"
    ELSE IF ~Given(parameters.il_layer) THEN "Liquefaction Index layer is required"
    ELSE "Liquefaction Index field must be specified"

\* C25: a run whose DTM, IL layer or IL field parameter is missing or empty
\* never calls a delegated operation and writes or reports no output; it
\* ends at once, raising QgsProcessingException with the message of the
\* first of the three that is missing
C25_ValidationBeforeWork ==
    ~ParametersGiven =>
        /\ pc \in {"start", "done"}
        /\ calls = << >>
        /\ sinks = << >>
        /\ outputs = EmptyDict
        /\ results = EmptyDict
        /\ feedback.current_step = 0
        /\ pc = "done" => run = Raised(FirstMissing)

\* the DTM is given, the IL layer is missing and the IL field is empty: the
\* run has ended on the message about the layer
C25_Witness ==
    /\ Given(parameters.dtm)
    /\ parameters.il_layer = None
    /\ parameters.il_field = Some("")
    /\ scene # << >>
    /\ pc = "done"
    /\ run = Raised("Liquefaction Index layer is required")
    /\ calls = << >>

(***************************************************************************)
(* Failures inside the zone loop (Spec).                                   *)
(***************************************************************************)
\* the positions of the rules one of whose five operations raised
FailedRules ==
    { j \in 1..Len(rules) :
        \E n \in 1..Len(calls) : calls[n].zone = rules[j].code /\ calls[n].outcome = "raise" }

\* a delegated operation of the main pipeline raised
MainFailure ==
    \E n \in 1..Len(calls) : ~PerRule(n) /\ ~IsStyle(n) /\ calls[n].outcome = "raise"

\* the loop over the table has run to its end
LoopOver ==
    \/ pc \in {"merge", "reorganize", "style_zones"}
    \/ pc = "done" /\ feedback.observed = None /\ Called("native:renametablefield")
                   /\ run # Raised("native:renametablefield")

Reorganized ==
    \E n \in 1..Len(calls) : calls[n].alg = "native:refactorfields" /\ calls[n].zone = 0

\* C29: when the loop ends with no zone layer the run raises 'No zones were
\* generated' and reports no zones output; the merge and the reorganization
\* are only reached, and only invoked, with a non-empty list of layers, and
\* no entry of the list is None
C29_NoZonesIsFatal ==
    /\ (pc = "done" /\ LoopOver /\ zone_layers = << >>) =>
          run = Raised("No zones were generated")
    /\ zone_layers = << >> =>
          /\ pc \notin {"merge", "reorganize", "style_zones"}
          /\ ~Called("native:mergevectorlayers")
          /\ ~Reorganized
          /\ "merged_zones" \notin DOMAIN outputs
          /\ OUTPUT_ZONES \notin DOMAIN results
          /\ run.kind = "returned" => OUTPUT_ZONES \notin DOMAIN run.value
    /\ \A n \in 1..Len(calls) :
          calls[n].alg = "native:mergevectorlayers" => calls[n].arg[1] >= 2
    /\ \A a \in 1..Len(zone_layers) : zone_layers[a] # None

\* a table of one rule whose extraction raised: the run ended with the
\* fatal error, merge and reorganization never invoked
C29_Witness ==
    /\ Len(rules) = 1
    /\ FailedRules = {1}
    /\ zone_layers = << >>
    /\ pc = "done"
    /\ run = Raised("No zones were generated")
    /\ ~Called("native:mergevectorlayers")
    /\ ~Reorganized

(***************************************************************************)
(* Progress accounting of the lateral spreading run (Spec).                *)
(***************************************************************************)
\* the run returned its results without having seen the cancel flag
SuccessfulEnd == pc = "done" /\ run.kind = "returned" /\ feedback.observed = None

\* the current step never decreases and never exceeds total_steps
StepsNeverDecreaseNorExceed ==
    [][ /\ feedback'.current_step >= feedback.current_step
        /\ feedback'.current_step <= total_steps ]_vars

\* a run that returned its results stopped one step short of total_steps
SuccessfulRunStopsOneShort ==
    SuccessfulEnd => feedback.current_step = total_steps - 1

\* C30: the current step never decreases, never exceeds total_steps
\* = 6 + 5 * (number of rules) + 4, and on every successfully completed run
\* the last reported step equals total_steps
C30_StepsReachTotal ==
    [][ /\ feedback'.current_step >= feedback.current_step
        /\ feedback'.current_step <= total_steps
        /\ SuccessfulEnd' => feedback'.current_step = total_steps ]_vars

(***************************************************************************)
(* The order and the wiring of the delegated operations (Spec).            *)
(***************************************************************************)
\* the position in the table of the rule with the given code
RuleAt(code) == CHOOSE j \in 1..Len(rules) : rules[j].code = code

\* the place of a call in the documented order: 1..5 the operations before
\* the loop, five per rule in table order, then merge and reorganize
Ord(call) ==
    LET base == 5 + 5 * (RuleAt(call.zone) - 1)
    IN  CASE call.alg = "gdal:cliprasterbymasklayer" -> 1
          [] call.alg = "gdal:slope" -> 2
          [] call.alg = "gdal:polygonize" -> 3
          [] call.alg = "native:intersection" -> 4
          [] call.alg = "native:renametablefield" -> 5
          [] call.alg = "native:extractbyexpression" -> base + 1
          [] call.alg = "native:dissolve" -> base + 2
          [] call.alg = "native:fieldcalculator" /\ call.arg[1] = FIELD_CODE -> base + 3
          [] call.alg = "native:refactorfields" /\ call.zone # 0 -> base + 4
          [] call.alg = "native:fieldcalculator" /\ call.arg[1] = FIELD_FORMULA -> base + 5
          [] call.alg = "native:mergevectorlayers" -> 5 + 5 * Len(rules) + 1
          [] call.alg = "native:refactorfields" /\ call.zone = 0 -> 5 + 5 * Len(rules) + 2
          [] OTHER -> 0

\* what the operation at a place of the order is given: the output of the
\* operation before it (for an extraction, the prepared data of the
\* operation before the loop; for the merge, the layers of the loop)
InputAt(call) ==
    LET o == Ord(call)
    IN  CASE o = 1 -> "digital_terrain_model_dtm"
          [] o = 2 -> "clipped_dtm"
          [] o = 3 -> "slope"
          [] o = 4 -> "slope_polygons"
          [] o = 5 -> "intersected"
          [] o = 5 + 5 * Len(rules) + 1 -> "zone_layers"
          [] o = 5 + 5 * Len(rules) + 2 -> "merged_zones"
          [] call.alg = "native:extractbyexpression" -> "prepared_data"
          [] call.alg = "native:dissolve" -> "extract_result"
          [] call.alg = "native:fieldcalculator" /\ call.arg[1] = FIELD_CODE -> "dissolve_result"
          [] call.alg = "native:refactorfields" -> "code_result"
          [] OTHER -> "refactor_result"

\* the place of the call that follows: the next one, the first of the next
\* rule after an operation of a rule that gave no layer, and the merge is
\* passed over when there is one zone layer
After(call) ==
    LET merge == 5 + 5 * Len(rules) + 1
        next  == IF call.zone # 0 /\ call.outcome # "ok"
                 THEN 5 + 5 * RuleAt(call.zone) + 1
                 ELSE Ord(call) + 1
    IN  IF next = merge /\ Len(zone_layers) = 1 THEN merge + 1 ELSE next

\* the layers the pipeline keeps between its stages
Intermediate ==
    {"clipped_dtm", "slope", "slope_polygons", "intersected", "prepared_data", "merged_zones"}

\* C24: the delegated operations are invoked one after another in the fixed
\* order clip, slope, (style), polygonize, intersect, rename, then for each
\* rule in table order extract, dissolve, add code, refactor, add formula,
\* then merge, reorganize, (style); every operation is given the output of
\* the operation before it in its chain, and the zones output is reported
\* only once the reorganization has run
C24_FixedOrder ==
    LET c == NonStyle(calls)
    IN  /\ c # << >> => Ord(c[1]) = 1
        /\ \A n \in 1..(Len(c) - 1) : Ord(c[n + 1]) = After(c[n])
        /\ \A n \in 1..Len(c) :
              /\ (c[n].zone = 0 /\ c[n].outcome # "ok") => n = Len(c)
              /\ c[n].input = InputAt(c[n])
              /\ c[n].input \in Intermediate => c[n].input \in DOMAIN outputs
        /\ \A n \in 1..Len(calls) :
              IsStyle(n) =>
                 /\ n > 1
                 /\ calls[n - 1].outcome = "ok"
                 /\ \/ /\ calls[n].arg = << "slope.qml" >>
                       /\ calls[n].input = "slope"
                       /\ calls[n - 1].alg = "gdal:slope"
                    \/ /\ calls[n].arg = << "lateral_spreading.qml" >>
                       /\ calls[n].input = "final"
                       /\ calls[n - 1].alg = "native:refactorfields"
                       /\ calls[n - 1].zone = 0
                       /\ n = Len(calls)
        /\ "intersected" \in DOMAIN outputs =>
              outputs["intersected"]
                 = Intersection(outputs["slope_polygons"], scene, parameters.il_field[1])
        /\ "prepared_data" \in DOMAIN outputs =>
              outputs["prepared_data"]
                 = RenameTableField(outputs["intersected"], parameters.il_field[1], FIELD_INDEX)
        /\ "merged_zones" \in DOMAIN outputs =>
              outputs["merged_zones"] = IF Len(zone_layers) = 1 THEN zone_layers[1]
                                        ELSE MergeVectorLayers(zone_layers)
        /\ "final" \in DOMAIN outputs =>
              outputs["final"] = RefactorFields(outputs["merged_zones"],
                                                {FIELD_FID, FIELD_CODE, FIELD_FORMULA})
        /\ OUTPUT_ZONES \in DOMAIN results =>
              /\ \E n \in 1..Len(calls) :
                    /\ calls[n].alg = "native:refactorfields" /\ calls[n].zone = 0
                    /\ calls[n].outcome = "ok"
              /\ results[OUTPUT_ZONES] = outputs["final"]

\* a run with styles on which every operation returned: 5 operations, 5 for
\* each rule, merge and reorganize, and the two styles
C24_Witness ==
    /\ pc = "done"
    /\ run.kind = "returned"
    /\ parameters.apply_styles
    /\ scene = SeqOf(Pieces)
    /\ \A n \in 1..Len(calls) : calls[n].outcome = "ok"
    /\ Len(NonStyle(calls)) = 5 + 5 * Len(rules) + 2
    /\ Len(calls) = Len(NonStyle(calls)) + 2
    /\ OUTPUT_ZONES \in DOMAIN run.value

(***************************************************************************)
(* The hydrological pipeline (SpecPlugin).                                 *)
(***************************************************************************)
\* the watershed stage returned without a stream raster
NoStream ==
    \E n \in 1..Len(calls) : calls[n].alg = "grass:r.watershed" /\ calls[n].outcome = "no_output"

\* C26: the hydrological stages run in the order fill sinks, watershed,
\* raster to vector, smoothing, each one given the output of the one before
\* it; when the watershed stage returns no stream raster and the poll did
\* not see the cancel flag, the run raises QgsProcessingException, and in
\* either case neither raster to vector nor smoothing is invoked
C26_HydrologicalOrder ==
    LET order == << "native:fillsinkswangliu", "grass:r.watershed", "grass:r.to.vect",
                    "native:smoothgeometry" >>
        given == << "digital_terrain_model_dtm", "filled_dtm", "watershed", "vector_raw" >>
    IN  algorithm = "hydrological_analysis_stream_network" =>
           /\ Len(calls) <= Len(order)
           /\ \A n \in 1..Len(calls) :
                 /\ calls[n].alg = order[n]
                 /\ calls[n].input = given[n]
                 /\ n > 1 => /\ calls[n - 1].outcome = "ok"
                             /\ given[n] \in DOMAIN outputs
                             /\ outputs[given[n]] = Some(Product(given[n]))
           /\ NoStream =>
                 /\ Len(calls) = 2
                 /\ pc = "done"
                 /\ ~Called("grass:r.to.vect") /\ ~Called("native:smoothgeometry")
                 /\ IF feedback.observed = None
                    THEN run = Raised("_run_watershed_analysis")
                    ELSE run = Returned(EmptyDict)

\* the watershed stage gave no stream raster and the run was not cancelled:
\* the run raised after two operations
C26_Witness ==
    /\ algorithm = "hydrological_analysis_stream_network"
    /\ NoStream
    /\ feedback.observed = None
    /\ run.kind = "raised"
    /\ Len(calls) = 2
    /\ calls[1].outcome = "ok"

(***************************************************************************)
(* checkParameterValues of the hydrological and the geology algorithm.     *)
(* The host calls it before processAlgorithm; its result is the pair       *)
(* (is_valid, error_message).  Degrees and offsets are decimal numbers     *)
(* counted in thousandths (0.01 is 10, 90 is 90000, 1.0 is 1000).          *)
(***************************************************************************)
\* HydrologicalParameters(...): parameterAsDouble / parameterAsInt of the
\* five numeric parameters
HydrologicalParameters(params) ==
    [min_slope      |-> params.minimum_slope_degree,
     min_basin_size |-> params.minimum_size_of_exterior_watershed_basin,
     iterations     |-> params.smoothing_iterations,
     max_angle      |-> params.maximum_node_corner_vertex_angle,
     offset         |-> params.smoothing_offset]

\* slip: the lower bound of the minimum slope is exclusive
validate_slope_open(self) ==
    IF ~(10 < self.min_slope /\ self.min_slope <= 90000)
    THEN << FALSE, "Minimum slope must be between 0.01 and 90 degrees" >>
    ELSE IF self.min_basin_size < 1
    THEN << FALSE, "Minimum basin size must be >= 1" >>
    ELSE IF ~(1 <= self.iterations /\ self.iterations <= 10)
    THEN << FALSE, "Iterations must be between 1 and 10" >>
    ELSE IF ~(0 <= self.max_angle /\ self.max_angle <= 360)
    THEN << FALSE, "Maximum angle must be between 0 and 360 degrees" >>
    ELSE IF ~(10 <= self.offset /\ self.offset <= 1000)
    THEN << FALSE, "Offset must be between 0.01 and 1.0" >>
    ELSE << TRUE, "" >>

\* HydrologicalParameters.validate
validate(self) ==
    IF ~(10 <= self.min_slope /\ self.min_slope <= 90000)
    THEN << FALSE, "Minimum slope must be between 0.01 and 90 degrees" >>
    ELSE IF self.min_basin_size < 1
    THEN << FALSE, "Minimum basin size must be >= 1" >>
    ELSE IF ~(1 <= self.iterations /\ self.iterations <= 10)
    THEN << FALSE, "Iterations must be between 1 and 10" >>
    ELSE IF ~(0 <= self.max_angle /\ self.max_angle <= 360)
    THEN << FALSE, "Maximum angle must be between 0 and 360 degrees" >>
    ELSE IF ~(10 <= self.offset /\ self.offset <= 1000)
    THEN << FALSE, "Offset must be between 0.01 and 1.0" >>
    ELSE << TRUE, "" >>

\* what super().checkParameterValues may answer: the host's own checks of
\* the declared parameters
HostChecks == { << TRUE, "" >>, << FALSE, "host" >> }

\* HydrologicalAnalysisStreams.checkParameterValues, super_result being what
\* the host's check answers when it is reached
HYDRO_checkParameterValues(params, super_result) ==
    LET dtm == params.digital_terrain_model_dtm
    IN  IF dtm = None THEN << FALSE, "Invalid DTM raster layer" >>
        ELSE IF ~dtm[1].valid THEN << FALSE, "DTM raster layer is not valid" >>
        ELSE IF dtm[1].empty THEN << FALSE, "DTM has empty extent" >>
        ELSE LET checked == validate(HydrologicalParameters(params))
             IN  IF ~checked[1] THEN << FALSE, checked[2] >>
                 ELSE super_result

\* GeologyAlgorithm.MIN_TOLERANCE
MIN_TOLERANCE == 0

\* slip: the tolerance is checked first
G4PL_checkParameterValues_tolerance_first(params, super_result) ==
    LET points_source == params.points_with_geological_information
        lines_layer == params.line_drawing_geological_contacts
        attribute_field == params.geological_attribute_field
        tolerance == params.vertex_tolerance
    IN  IF tolerance < MIN_TOLERANCE
        THEN << FALSE, "Tolerance must be greater than or equal to 0.0" >>
        ELSE IF points_source = None THEN << FALSE, "Invalid points layer" >>
        ELSE IF points_source[1].featureCount = 0 THEN << FALSE, "Points layer is empty" >>
        ELSE IF points_source[1].geometryType # "PointGeometry"
        THEN << FALSE, "Input must be a point layer" >>
        ELSE IF lines_layer = None THEN << FALSE, "Invalid lines layer" >>
        ELSE IF lines_layer[1].featureCount = 0 THEN << FALSE, "Lines layer is empty" >>
        ELSE IF lines_layer[1].geometryType # "LineGeometry"
        THEN << FALSE, "Input must be a line layer" >>
        ELSE IF attribute_field = ""
        THEN << FALSE, "Geological attribute field must be specified" >>
        ELSE IF attribute_field \notin points_source[1].fields
        THEN << FALSE, "Field not found in points layer" >>
        ELSE super_result

\* GeologyAlgorithm.checkParameterValues
G4PL_checkParameterValues(params, super_result) ==
    LET points_source == params.points_with_geological_information
        lines_layer == params.line_drawing_geological_contacts
        attribute_field == params.geological_attribute_field
        tolerance == params.vertex_tolerance
    IN  IF points_source = None THEN << FALSE, "Invalid points layer" >>
        ELSE IF points_source[1].featureCount = 0 THEN << FALSE, "Points layer is empty" >>
        ELSE IF points_source[1].geometryType # "PointGeometry"
        THEN << FALSE, "Input must be a point layer" >>
        ELSE IF lines_layer = None THEN << FALSE, "Invalid lines layer" >>
        ELSE IF lines_layer[1].featureCount = 0 THEN << FALSE, "Lines layer is empty" >>
        ELSE IF lines_layer[1].geometryType # "LineGeometry"
        THEN << FALSE, "Input must be a line layer" >>
        ELSE IF attribute_field = ""
        THEN << FALSE, "Geological attribute field must be specified" >>
        ELSE IF attribute_field \notin points_source[1].fields
        THEN << FALSE, "Field not found in points layer" >>
        ELSE IF tolerance < MIN_TOLERANCE
        THEN << FALSE, "Tolerance must be greater than or equal to 0.0" >>
        ELSE super_result

\* the raster layers a DTM parameter may resolve to
DtmLayers == {None} \cup { Some([valid |-> v, empty |-> e]) : v, e \in BOOLEAN }

\* values on both sides of every limit of validate
HydrologicalInputs ==
    [digital_terrain_model_dtm : DtmLayers,
     minimum_slope_degree : {9, 10, 90000, 90001},
     minimum_size_of_exterior_watershed_basin : {0, 1},
     smoothing_iterations : {0, 1, 10, 11},
     maximum_node_corner_vertex_angle : {0 - 1, 0, 360, 361},
     smoothing_offset : {9, 10, 1000, 1001}]

GeometryTypes == {"PointGeometry", "LineGeometry", "PolygonGeometry"}

\* what the points parameter may resolve to
PointSources ==
    {None} \cup { Some([featureCount |-> n, geometryType |-> g, fields |-> f]) :
                    n \in {0, 2}, g \in GeometryTypes, f \in {{"fid"}, {"fid", "unit"}} }

\* what the lines parameter may resolve to
LineLayers ==
    {None} \cup { Some([featureCount |-> n, geometryType |-> g]) :
                    n \in {0, 2}, g \in GeometryTypes }

GeologyInputs ==
    [points_with_geological_information : PointSources,
     line_drawing_geological_contacts : LineLayers,
     geological_attribute_field : {"", "unit", "age"},
     vertex_tolerance : {0 - 1, 0, 1}]

\* the host is about to check the parameters of a run
InitCheck ==
    /\ rules = ZONE_CRITERIA
    /\ \/ algorithm = "hydrological_analysis_stream_network" /\ parameters \in HydrologicalInputs
       \/ algorithm = "geology_from_points_and_lines" /\ parameters \in GeologyInputs
    /\ scene = << >>
    /\ pc = "check"
    /\ stage = 0
    /\ seen = NoRuns
    /\ NewRun

\* the host calls HydrologicalAnalysisStreams.checkParameterValues
CheckHydrological ==
    /\ pc = "check"
    /\ algorithm = "hydrological_analysis_stream_network"
    /\ \E super_result \in HostChecks :
          run' = Returned(HYDRO_checkParameterValues(parameters, super_result))
    /\ pc' = "checked"
    /\ UNCHANGED <<rules, sample, k, matches, algorithm, scene, parameters, stage, feedback,
                   outputs, results, zone_layers, zone_i, cur, calls, sinks, seen>>

\* the host calls GeologyAlgorithm.checkParameterValues
CheckGeology ==
    /\ pc = "check"
    /\ algorithm = "geology_from_points_and_lines"
    /\ \E super_result \in HostChecks :
          run' = Returned(G4PL_checkParameterValues(parameters, super_result))
    /\ pc' = "checked"
    /\ UNCHANGED <<rules, sample, k, matches, algorithm, scene, parameters, stage, feedback,
                   outputs, results, zone_layers, zone_i, cur, calls, sinks, seen>>

NextCheck ==
    \/ CheckHydrological
    \/ CheckGeology

SpecCheck == InitCheck /\ [][NextCheck]_vars

\* the five constraints of the hydrological parameters, in order
Constraints ==
    LET p == parameters
    IN  << [ok  |-> 10 <= p.minimum_slope_degree /\ p.minimum_slope_degree <= 90000,
            msg |-> "Minimum slope must be between 0.01 and 90 degrees"],
           [ok  |-> p.minimum_size_of_exterior_watershed_basin >= 1,
            msg |-> "Minimum basin size must be >= 1"],
           [ok  |-> 1 <= p.smoothing_iterations /\ p.smoothing_iterations <= 10,
            msg |-> "Iterations must be between 1 and 10"],
           [ok  |-> 0 <= p.maximum_node_corner_vertex_angle
                    /\ p.maximum_node_corner_vertex_angle <= 360,
            msg |-> "Maximum angle must be between 0 and 360 degrees"],
           [ok  |-> 10 <= p.smoothing_offset /\ p.smoothing_offset <= 1000,
            msg |-> "Offset must be between 0.01 and 1.0"] >>

\* the positions of the constraints that are violated
Violated == { n \in 1..Len(Constraints) : ~Constraints[n].ok }

\* the DTM parameter resolves to a valid raster with an extent
DtmUsable ==
    /\ parameters.digital_terrain_model_dtm # None
    /\ parameters.digital_terrain_model_dtm[1].valid
    /\ ~parameters.digital_terrain_model_dtm[1].empty

GeologyFailures ==
    LET p == parameters
        points == p.points_with_geological_information
        lines == p.line_drawing_geological_contacts
    IN  << [bad |-> points = None, msg |-> "Invalid points layer"],
           [bad |-> points # None /\ points[1].featureCount = 0, msg |-> "Points layer is empty"],
           [bad |-> points # None /\ points[1].geometryType # "PointGeometry",
            msg |-> "Input must be a point layer"],
           [bad |-> lines = None, msg |-> "Invalid lines layer"],
           [bad |-> lines # None /\ lines[1].featureCount = 0, msg |-> "Lines layer is empty"],
           [bad |-> lines # None /\ lines[1].geometryType # "LineGeometry",
            msg |-> "Input must be a line layer"],
           [bad |-> p.geological_attribute_field = "",
            msg |-> "Geological attribute field must be specified"],
           [bad |-> points # None /\ p.geological_attribute_field \notin points[1].fields,
            msg |-> "Field not found in points layer"],
           [bad |-> p.vertex_tolerance < 0,
            msg |-> "Tolerance must be greater than or equal to 0.0"] >>

Failing == { n \in 1..Len(GeologyFailures) : GeologyFailures[n].bad }

\* C23: whenever one of the listed conditions holds, checkParameterValues
\* answers False with the message of the first failing check in the order
\* points layer, lines layer, attribute field, tolerance, and no delegated
\* operation has been invoked
C23_GeologyChecks ==
    (algorithm = "geology_from_points_and_lines" /\ pc = "checked" /\ Failing # {}) =>
        /\ run.value = << FALSE, GeologyFailures[CHOOSE n \in Failing :
                                                   \A m \in Failing : n <= m].msg >>
        /\ calls = << >>

\* good layers, a field the points layer lacks and a negative tolerance:
\* the message is the one of the field
C23_Witness ==
    /\ algorithm = "geology_from_points_and_lines"
    /\ pc = "checked"
    /\ Failing = {8, 9}
    /\ parameters.geological_attribute_field = "age"
    /\ run.value = << FALSE, "Field not found in points layer" >>

(***************************************************************************)
(* The slope threshold of the seismic microzonation pipeline: steps 3 to 5 *)
(* of processAlgorithm on the cells of a slope raster.                     *)
(***************************************************************************)
\* the largest number of cells of a slope raster
MaxCells == 2

\* a cell without a slope value
NODATA == None

\* slip: the comparison of the expression is strict
SlopeThresholdExpression_strict(threshold) ==
    [layer |-> "A@1", op |-> ">", val |-> threshold]

\* the EXPRESSION of _apply_slope_threshold: f'"A@1" >= {threshold}'
SlopeThresholdExpression(threshold) ==
    [layer |-> "A@1", op |-> ">=", val |-> threshold]

\* native:modelerrastercalc on one band: 1 where the comparison is true, 0
\* where it is false, and no value where the cell has none
ModelerRasterCalc(expression, cells) ==
    LET true(x) == IF expression.op = ">=" THEN Gt(x, expression.val) \/ IsInt(x, expression.val)
                   ELSE Gt(x, expression.val)
    IN  [n \in 1..Len(cells) |->
            IF cells[n] = NODATA THEN NODATA ELSE IF true(cells[n][1]) THEN Some(1) ELSE Some(0)]

\* gdal:polygonize with FIELD = DN on a band of cells: a polygon for every
\* cell with a value, its DN the value
PolygonizeBand(cells) ==
    LET valued == SelectSeq([n \in 1..Len(cells) |-> n], LAMBDA n : cells[n] # NODATA)
    IN  Layer(0, {FIELD_FID, FIELD_DN},
              [m \in 1..Len(valued) |->
                  [geom |-> {valued[m]},
                   attrs |-> (FIELD_FID :> m) @@ (FIELD_DN :> cells[valued[m]][1])]])

\* the number a VALUE text stands for when the field is numeric
AsNumber(text) == CASE text = "0" -> 0 [] text = "1" -> 1 [] OTHER -> NULL

\* native:extractbyattribute with OPERATOR 0 (equals)
ExtractByAttribute(layer, field, value) ==
    Layer(0, layer.fields,
          SelectSeq(layer.feats, LAMBDA feat : feat.attrs[field] = AsNumber(value)))

\* slopes below, at and above a threshold of 15, and 0
SlopeCells ==
    {NODATA} \cup { Some(slope) : slope \in { [w |-> 0, f |-> 0], [w |-> 14, f |-> 1],
                                             [w |-> 15, f |-> 0], [w |-> 15, f |-> 1] } }

\* the slope thresholds tried, of the 0..90 the parameter allows
Thresholds == {0, 15, 16, 90}

\* the slope raster is computed; step 3 is about to start
InitThreshold ==
    /\ rules = ZONE_CRITERIA
    /\ algorithm = "seismic_microzonation_morphology"
    /\ scene \in UNION { [1..n -> SlopeCells] : n \in 1..MaxCells }
    /\ parameters \in [slope_threshold : Thresholds]
    /\ pc = "threshold"
    /\ stage = 3
    /\ seen = NoRuns
    /\ NewRun

\* Step 3: _apply_slope_threshold
ApplySlopeThreshold ==
    /\ pc = "threshold"
    /\ LET expression == SlopeThresholdExpression(parameters.slope_threshold)
       IN  /\ Ran("native:modelerrastercalc", 0, "slope", {TEMPORARY_OUTPUT},
                  << expression >>, "ok")
           /\ outputs' = Put(outputs, "threshold_raster", ModelerRasterCalc(expression, scene))
    /\ pc' = "polygonize_threshold"
    /\ stage' = 4
    /\ UNCHANGED <<rules, sample, k, matches, algorithm, scene, parameters, feedback, results,
                   zone_layers, zone_i, cur, run, seen>>

\* Step 4: _polygonize_raster
PolygonizeThreshold ==
    /\ pc = "polygonize_threshold"
    /\ Ran("gdal:polygonize", 0, "threshold_raster", {TEMPORARY_OUTPUT}, << FIELD_DN >>, "ok")
    /\ outputs' = Put(outputs, "polygons", PolygonizeBand(outputs["threshold_raster"]))
    /\ pc' = "extract_high_slopes"
    /\ stage' = 5
    /\ UNCHANGED <<rules, sample, k, matches, algorithm, scene, parameters, feedback, results,
                   zone_layers, zone_i, cur, run, seen>>

\* Step 5: _extract_high_slopes
ExtractHighSlopes ==
    /\ pc = "extract_high_slopes"
    /\ Ran("native:extractbyattribute", 0, "polygons", {TEMPORARY_OUTPUT},
           << FIELD_DN, "1" >>, "ok")
    /\ outputs' = Put(outputs, "extracted", ExtractByAttribute(outputs["polygons"], FIELD_DN, "1"))
    /\ pc' = "join"
    /\ stage' = 6
    /\ UNCHANGED <<rules, sample, k, matches, algorithm, scene, parameters, feedback, results,
                   zone_layers, zone_i, cur, run, seen>>

NextThreshold ==
    \/ ApplySlopeThreshold
    \/ PolygonizeThreshold
    \/ ExtractHighSlopes

SpecThreshold == InitThreshold /\ [][NextThreshold]_vars

\* the cells whose slope is at or above the threshold
AtOrAbove ==
    { n \in 1..Len(scene) :
        /\ scene[n] # NODATA
        /\ GeVal(scene[n][1], [w |-> parameters.slope_threshold, f |-> 0]) }

====
